---- MODULE Spec2Model ----
(***************************************************************************)
(* Model of the work-queue daemon of app/services/daemon_procesador.py:    *)
(* the control operations iniciar_daemon / detener_daemon, the daemon      *)
(* threads running _daemon_loop, and the de_clientes_rpa / de_procesos_rpa *)
(* / de_consultas_rpa rows they read and write.                            *)
(*                                                                         *)
(* Every database commit, every read of daemon_state.running and the       *)
(* scraper call are separate steps of a thread, so that other threads and  *)
(* the control operations interleave between them as they do in the code.  *)
(***************************************************************************)
EXTENDS Integers, Sequences, FiniteSets, TLC

\* ------------------------------------------------------------------ bounds
\* clients in de_clientes_rpa in the concurrency specification
NumClientes == 2
\* clients in de_clientes_rpa in the batch specification: more than one
\* batch takes
NumClientesLote == 6
\* daemon threads alive at the same time in the concurrency specification
MaxHilos == 2
\* largest number of result pages the browser strategy captures
MaxPaginas == 1
\* sleeps of `interval` seconds that make up the wait between two batches
\* (180 in the code: 30 minutes in sleeps of 10 seconds)
IntervalosEspera == 2
\* largest max_pages given to capture_all_result_pages
MaxPaginasCaptura == 4
\* pages generar_reporte_httpx requests at most (MAX_PAGES, 20 in the code)
MaxPaginasApi == 4
\* largest number of records in one page of the API (PAGE_SIZE, 10 in the
\* code)
MaxRegistros == 2
\* detection checks that may raise in one run of the detectors (beside
\* the run in which every check raises)
MaxFallos == 1
\* pieces of text a log given to verificar_httpx_sin_procesos_judiciales
\* is made of at most
MaxFragmentos == 2
\* calls of verificar_httpx_sin_procesos_judiciales on one log
MaxLlamadas == 2
\* largest count a paginator range label shows ("1 - end de total")
MaxTotal == 2
\* largest MAX_RETRIES (core.config) process_funcion_judicial runs with
MaxReintentos == 3
\* longest apellidos_nombres given to process_funcion_judicial
MaxLargo == 4
\* most paginas_codigos in a request to create a process by hand
MaxCodigos == 3

\* --------------------------------------------------------------- constants
\* _obtener_clientes_pendientes(limite=5)
LIMITE == 5
\* _daemon_loop: interval = 10
interval == 10
\* _daemon_loop: wait_time = 30 * 60, here IntervalosEspera sleeps
wait_time == IntervalosEspera * interval

NULL == "NULL"
NoFila == [estado |-> NULL]
NoConsulta == [estado |-> NULL, escenario |-> NULL]
NoSesion == [proceso |-> NULL, consulta |-> NULL, escenario |-> NULL]

VARIABLES
    running,                      \* daemon_state.running
    thread,                       \* daemon_state.thread (0 = None)
    clientes_procesados_en_lote,  \* daemon_state.clientes_procesados_en_lote
    ultimo_lote_inicio,           \* daemon_state.ultimo_lote_inicio
    detener_pc,                   \* position of a detener_daemon call
    estado,                       \* DeCliente.estado, by cliente id
    sin_nombre,                   \* ids of the clients without nombre/apellido
    bd_fiable,                    \* the database never fails in this run
    pc,                           \* position of each daemon thread
    lote,                         \* clients of the batch not yet visited
    cliente,                      \* client of the current iteration (0 = none)
    proceso,                      \* committed DeProceso row of the iteration
    consulta,                     \* committed DeConsulta row of the iteration
    sesion,                       \* uncommitted changes of the open session
    resultado,                    \* what process_funcion_judicial_once gave
    estrategias,                  \* retrieval strategies invoked in the cycle
    reporte,                      \* how _generar_reporte_para_proceso ended
    elapsed,                      \* _daemon_loop: seconds slept in the wait
    captura,                      \* a call of capture_all_result_pages
    httpx,                        \* a call of generar_reporte_httpx
    once,                         \* a call of process_funcion_judicial_once
    verificacion,                 \* verificar_httpx_sin_procesos_judiciales
                                  \* on one log
    deteccion,                    \* the three page detectors on one page
    boton,                        \* a call of is_next_button_enabled
    reintentos,                   \* a call of process_funcion_judicial
    manual,                       \* a manually created process and its
                                  \* background execution
    bloqueo,                      \* daemon_state.lock and the callers and
                                  \* threads that take it
    acceso,                       \* the last access to daemon_state
    cuenta                        \* per thread, the clients of its batch
                                  \* it has counted

vars == <<running, thread, clientes_procesados_en_lote, ultimo_lote_inicio,
          detener_pc, estado, sin_nombre, bd_fiable, pc, lote, cliente, proceso,
          consulta, sesion, resultado, estrategias, reporte, elapsed, captura,
          httpx, once, verificacion, deteccion, boton, reintentos, manual,
          bloqueo, acceso, cuenta>>

daemon_vars == <<running, thread, clientes_procesados_en_lote,
                 ultimo_lote_inicio, detener_pc>>
fila_vars == <<proceso, consulta, sesion, resultado, estrategias, reporte>>
datos_vars == <<sin_nombre, bd_fiable>>
llamada_vars == <<captura, httpx, once, verificacion, deteccion, boton,
                  reintentos, manual, bloqueo>>
flujo_vars == <<llamada_vars, acceso, cuenta>>

Clientes == DOMAIN estado
Hilos == DOMAIN pc

\* DeCliente.fecha_creacion: distinct per client, not in id order
fecha_creacion(c) == IF c % 2 = 1 THEN c + 1 ELSE c - 1

\* a thread that was started and has not left _daemon_loop
Vivo(t) == pc[t] \notin {"no_creado", "done"}

\* ------------------------------------------------------------ scraper data
NoResultado == [scenario |-> NULL, total_pages |-> 0, screenshots |-> 0]

\* what process_funcion_judicial_once can give: None, an exception, or a
\* dictionary; screenshots counts the entries of resultado["screenshots"]
\* (the page captures plus the final screenshot)
ResultadosScraper ==
    {[scenario |-> "None", total_pages |-> 0, screenshots |-> 0],
     [scenario |-> "raise", total_pages |-> 0, screenshots |-> 0],
     [scenario |-> "no_results", total_pages |-> 0, screenshots |-> 2],
     [scenario |-> "indeterminate", total_pages |-> 0, screenshots |-> 2]}
    \cup {[scenario |-> "results_found", total_pages |-> k,
           screenshots |-> k + 1] : k \in 0..MaxPaginas}

\* --------------------------------------------------------------- database
\* whether a database operation succeeds: always when the database is
\* reliable, otherwise it may fail
ResultadosBD == IF bd_fiable THEN {TRUE} ELSE BOOLEAN

\* _actualizar_cliente_estado: commits the new estado; a database error is
\* logged and rolled back, leaving the row as it was
ActualizarClienteEstado(est, c, e, ok) ==
    IF ok /\ c \in DOMAIN est THEN [est EXCEPT ![c] = e] ELSE est

\* as MasAntiguo, with the order of the query reversed (desc for asc)
MasAntiguoInvertido(S) ==
    CHOOSE c \in S : \A d \in S : fecha_creacion(c) >= fecha_creacion(d)

\* the client of smallest fecha_creacion in a non-empty set
MasAntiguo(S) == CHOOSE c \in S : \A d \in S : fecha_creacion(c) <= fecha_creacion(d)

RECURSIVE OrdenarPorFecha(_)
OrdenarPorFecha(S) ==
    IF S = {} THEN <<>>
    ELSE <<MasAntiguo(S)>> \o OrdenarPorFecha(S \ {MasAntiguo(S)})

Primeros(s, n) == SubSeq(s, 1, IF Len(s) < n THEN Len(s) ELSE n)

\* _obtener_clientes_pendientes: filter estado = 'Pendiente',
\* order by fecha_creacion asc, limit
ObtenerClientesPendientes(est, limite) ==
    Primeros(OrdenarPorFecha({c \in DOMAIN est : est[c] = "Pendiente"}), limite)

\* ------------------------------------------------------------------- Init
\* no call of capture_all_result_pages is in progress
NoCaptura ==
    [pc |-> "inactiva", max_pages |-> 0, current_page |-> 0,
     screenshots |-> 0, clics |-> 0, paginas |-> <<>>, fin |-> NULL]

\* generar_reporte_httpx: (ruta, resultado) not yet returned
NoRetorno ==
    [ruta |-> NULL, scenario |-> NULL, total_procesos |-> 0,
     total_paginas |-> 0]

\* no call of generar_reporte_httpx is in progress
NoHttpx ==
    [pc |-> "inactiva", page |-> 0, contador |-> 0, total_resultados |-> 0,
     alguna_pagina_con_datos |-> FALSE, pagina_actual |-> 0,
     paginas |-> <<>>, filas |-> <<>>, consultadas |-> <<>>, fin |-> NULL,
     guardado |-> FALSE, retorno |-> NoRetorno]

\* no log is under verification
NoVeredicto == <<FALSE, NULL>>
NoVerificacion ==
    [log |-> <<>>, clases |-> <<>>, veredicto |-> NoVeredicto, llamadas |-> 0]

\* the accesses to daemon_state are not being recorded
NoAcceso ==
    [registra |-> FALSE, por |-> NULL, campos |-> {}, con_lock |-> TRUE]

\* function `por` reads or writes the fields `campos` of daemon_state,
\* inside a `with daemon_state.lock` block or not
Acceder(por, campos, con_lock) ==
    acceso' = IF acceso.registra
              THEN [registra |-> TRUE, por |-> por, campos |-> campos,
                    con_lock |-> con_lock]
              ELSE acceso

\* the callers of the control operations and the daemon threads that
\* take daemon_state.lock
Controles == {"iniciar", "detener", "estado"}
HilosDaemon == {"hilo1", "hilo2"}
Procesos == Controles \cup HilosDaemon

\* daemon_state.lock is not followed
NoBloqueo ==
    [lock |-> "libre", running |-> FALSE, thread |-> NULL,
     pc |-> [p \in Procesos |-> "inactivo"]]

\* the clients counted by each thread are not being recorded
NoCuenta == [registra |-> FALSE, ejecutados |-> <<>>]

\* thread t enters a batch (n = 0) or has created and executed the process
\* of one more client of its batch
Contar(t, n) ==
    cuenta' = IF cuenta.registra
              THEN [cuenta EXCEPT !.ejecutados[t] = n]
              ELSE cuenta

\* process_funcion_judicial is not called
NoReintentos ==
    [pc |-> "inactiva", MAX_RETRIES |-> 0, apellidos_nombres |-> <<>>,
     attempt |-> 0, intentos |-> <<>>, esperas |-> 0, retorno |-> NULL]

\* no process was created by hand
NoManual ==
    [pc |-> "inactiva", cliente |-> NULL, proceso |-> FALSE, paginas |-> 0,
     items |-> 0, lanza |-> NULL, obtenido |-> NULL, bd |-> TRUE]

\* no next-page button is under examination
NoBoton ==
    [pc |-> "inactiva", disabled |-> "None", aria_disabled |-> "None",
     classes |-> {}, is_clickable |-> TRUE,
     paginator_info |-> [legible |-> FALSE, end |-> 0, total |-> 0],
     lanza |-> 0, retorno |-> TRUE]

\* a detector that has not run
NoDetectado == [valor |-> FALSE, probados |-> <<>>]

\* no page is under detection
NoDeteccion ==
    [pc |-> "inactiva",
     pagina |-> [snack |-> "ninguno", filas |-> 0, contenedor |-> FALSE],
     fallan |-> {}, modal |-> NoDetectado, loaded |-> NoDetectado,
     scraping |-> NoDetectado, scenario |-> NULL]

\* no call of process_funcion_judicial_once is in progress
NoOnce ==
    [pc |-> "inactiva", driver |-> FALSE, eventos |-> <<>>, fallo |-> NULL,
     clics |-> <<>>,
     has_no_results_modal |-> FALSE, has_results |-> FALSE,
     scenario |-> NULL, screenshots |-> <<>>, total_pages |-> 0,
     salida |-> NULL, retorno |-> NULL]

InitDaemon(nc, nh, sn, fiable) ==
    /\ running = FALSE
    /\ thread = 0
    /\ clientes_procesados_en_lote = 0
    /\ ultimo_lote_inicio = "None"
    /\ detener_pc = "idle"
    /\ estado = [c \in 1..nc |-> "Pendiente"]
    /\ sin_nombre = sn
    /\ bd_fiable \in fiable
    /\ pc = [t \in 1..nh |-> "no_creado"]
    /\ lote = [t \in 1..nh |-> <<>>]
    /\ cliente = [t \in 1..nh |-> 0]
    /\ proceso = [t \in 1..nh |-> NoFila]
    /\ consulta = [t \in 1..nh |-> NoConsulta]
    /\ sesion = [t \in 1..nh |-> NoSesion]
    /\ resultado = [t \in 1..nh |-> NoResultado]
    /\ estrategias = [t \in 1..nh |-> <<>>]
    /\ reporte = [t \in 1..nh |-> NULL]
    /\ elapsed = [t \in 1..nh |-> 0]

\* no call is in progress of the functions followed apart from the
\* daemon, but for the one named f
SoloFlujo(f) ==
    /\ IF f = "captura" THEN TRUE ELSE captura = NoCaptura
    /\ IF f = "httpx" THEN TRUE ELSE httpx = NoHttpx
    /\ IF f = "once" THEN TRUE ELSE once = NoOnce
    /\ IF f = "verificacion" THEN TRUE ELSE verificacion = NoVerificacion
    /\ IF f = "deteccion" THEN TRUE ELSE deteccion = NoDeteccion
    /\ IF f = "boton" THEN TRUE ELSE boton = NoBoton
    /\ IF f = "reintentos" THEN TRUE ELSE reintentos = NoReintentos
    /\ IF f = "manual" THEN TRUE ELSE manual = NoManual
    /\ IF f = "bloqueo" THEN TRUE ELSE bloqueo = NoBloqueo
    /\ IF f = "acceso" THEN TRUE ELSE acceso = NoAcceso
    /\ IF f = "cuenta" THEN TRUE ELSE cuenta = NoCuenta

\* the daemon before its first start, with no flow in progress beside it
InitCon(nc, nh, sn, fiable) ==
    /\ InitDaemon(nc, nh, sn, fiable)
    /\ SoloFlujo("ninguno")

\* client 1 was imported without nombre/apellido
Init == InitCon(NumClientes, MaxHilos, {1}, {FALSE})

\* ------------------------------------------------------ control operations
\* a slot that holds no live thread: never started, or left _daemon_loop
Libre(t) == pc[t] \in {"no_creado", "done"}

\* as iniciar_daemon, without the test of daemon_state.running
iniciar_daemon_sin_guarda(run) ==
    [success |-> TRUE, estado |-> "running", running |-> TRUE,
     crea_hilo |-> TRUE]

\* iniciar_daemon, as a function of daemon_state.running: the answer, the
\* value it leaves in running and whether it starts a Thread
iniciar_daemon(run) ==
    IF run
    THEN [success |-> FALSE, estado |-> "running", running |-> run,
          crea_hilo |-> FALSE]
    ELSE [success |-> TRUE, estado |-> "running", running |-> TRUE,
          crea_hilo |-> TRUE]

\* detener_daemon, as a function of daemon_state.running: the answer, the
\* value it leaves in running and whether it goes on to join the thread
detener_daemon(run) ==
    IF ~run
    THEN [success |-> FALSE, estado |-> "stopped", running |-> run,
          join |-> FALSE]
    ELSE [success |-> TRUE, estado |-> "stopped", running |-> FALSE,
          join |-> TRUE]

\* iniciar_daemon: refused while running, changing nothing; otherwise sets
\* running and starts a new Thread on _daemon_loop (in the first free slot)
IniciarDaemon ==
    /\ running' = iniciar_daemon(running).running
    /\ IF iniciar_daemon(running).crea_hilo
       THEN \E t \in Hilos :
               /\ Libre(t)
               /\ \A u \in Hilos : Libre(u) => t <= u
               /\ thread' = t
               /\ pc' = [pc EXCEPT ![t] = "while"]
       ELSE UNCHANGED <<thread, pc>>
    /\ UNCHANGED <<clientes_procesados_en_lote, ultimo_lote_inicio, detener_pc,
                   estado, datos_vars, llamada_vars, elapsed, lote, cliente, fila_vars>>
    /\ Acceder("iniciar_daemon", {"running", "thread"}, TRUE)
    /\ UNCHANGED cuenta

\* detener_daemon, under the lock: refused while not running, changing
\* nothing; otherwise clears running
DetenerSenal ==
    /\ detener_pc = "idle"
    /\ running' = detener_daemon(running).running
    /\ detener_pc' = IF detener_daemon(running).join THEN "join" ELSE "idle"
    /\ UNCHANGED <<thread, clientes_procesados_en_lote, ultimo_lote_inicio,
                   estado, datos_vars, llamada_vars, elapsed, pc, lote, cliente, fila_vars>>
    /\ Acceder("detener_daemon", {"running"}, TRUE)
    /\ UNCHANGED cuenta

\* detener_daemon, after the lock: thread.join(timeout=5) returns when the
\* thread has ended or when the timeout expires, whichever comes first
DetenerJoin ==
    /\ detener_pc = "join"
    /\ detener_pc' = "idle"
    /\ UNCHANGED <<running, thread, clientes_procesados_en_lote,
                   ultimo_lote_inicio, estado, datos_vars, llamada_vars, elapsed, pc, lote, cliente,
                   fila_vars>>
    /\ Acceder("detener_daemon", {"thread"}, FALSE)
    /\ UNCHANGED cuenta

\* obtener_estado_daemon: the fields of daemon_state, read under the lock;
\* thread_alive is is_alive() of the thread started last
ObtenerEstadoDaemon ==
    [running |-> running,
     thread_alive |-> (thread # 0 /\ Vivo(thread)),
     clientes_procesados_en_lote |-> clientes_procesados_en_lote,
     ultimo_lote_inicio |-> ultimo_lote_inicio]

\* ---------------------------------------------------------- daemon thread
\* _daemon_loop, `while daemon_state.running`
HiloWhile(t) ==
    /\ pc[t] = "while"
    /\ pc' = [pc EXCEPT ![t] = IF running THEN "lote" ELSE "done"]
    /\ UNCHANGED <<daemon_vars, estado, datos_vars, llamada_vars, elapsed, lote, cliente, fila_vars>>
    /\ Acceder("_daemon_loop", {"running"}, FALSE)
    /\ UNCHANGED cuenta

\* _procesar_lote_clientes, first block under the lock
ProcesarLoteInicio(t) ==
    /\ pc[t] = "lote"
    /\ ultimo_lote_inicio' = "datetime"
    /\ clientes_procesados_en_lote' = 0
    /\ pc' = [pc EXCEPT ![t] = "obtener"]
    /\ UNCHANGED <<running, thread, detener_pc, estado, datos_vars, llamada_vars, elapsed, lote,
                   cliente, fila_vars>>
    /\ Acceder("_procesar_lote_clientes",
               {"ultimo_lote_inicio", "clientes_procesados_en_lote"}, TRUE)
    /\ Contar(t, 0)

\* _procesar_lote_clientes, the read of the batch fails: a database error
\* in _obtener_clientes_pendientes is not caught there and escapes the batch
ObtenerClientesFalla(t) ==
    /\ pc[t] = "obtener"
    /\ ~bd_fiable
    /\ pc' = [pc EXCEPT ![t] = "except"]
    /\ UNCHANGED <<daemon_vars, estado, datos_vars, flujo_vars, elapsed, lote, cliente, fila_vars>>

\* _procesar_lote_clientes, the read of the batch; an empty batch returns
\* to the wait
ObtenerClientesOk(t) ==
    /\ pc[t] = "obtener"
    /\ LET clientes == ObtenerClientesPendientes(estado, LIMITE) IN
        /\ lote' = [lote EXCEPT ![t] = clientes]
        /\ pc' = [pc EXCEPT ![t] = IF clientes = <<>> THEN "espera" ELSE "for"]
    /\ UNCHANGED <<daemon_vars, estado, datos_vars, flujo_vars, elapsed, cliente, fila_vars>>

\* as ForCliente, without the check of running at the head of the loop
ForClienteSinGuarda(t) ==
    /\ pc[t] = "for"
    /\ IF lote[t] = <<>>
       THEN /\ pc' = [pc EXCEPT ![t] = "espera"]
            /\ lote' = [lote EXCEPT ![t] = <<>>]
            /\ cliente' = [cliente EXCEPT ![t] = 0]
       ELSE /\ pc' = [pc EXCEPT ![t] = "marcar"]
            /\ lote' = [lote EXCEPT ![t] = Tail(lote[t])]
            /\ cliente' = [cliente EXCEPT ![t] = Head(lote[t])]
    /\ UNCHANGED <<daemon_vars, estado, datos_vars, flujo_vars, elapsed, fila_vars>>

\* _procesar_lote_clientes, head of the for loop: the batch is exhausted,
\* or the next client is taken and running is checked
ForCliente(t) ==
    /\ pc[t] = "for"
    /\ IF lote[t] = <<>> \/ ~running
       THEN /\ pc' = [pc EXCEPT ![t] = "espera"]
            /\ lote' = [lote EXCEPT ![t] = <<>>]
            /\ cliente' = [cliente EXCEPT ![t] = 0]
       ELSE /\ pc' = [pc EXCEPT ![t] = "marcar"]
            /\ lote' = [lote EXCEPT ![t] = Tail(lote[t])]
            /\ cliente' = [cliente EXCEPT ![t] = Head(lote[t])]
    /\ UNCHANGED <<daemon_vars, estado, datos_vars, llamada_vars, elapsed, fila_vars>>
    /\ IF lote[t] = <<>>
       THEN UNCHANGED acceso
       ELSE Acceder("_procesar_lote_clientes", {"running"}, FALSE)
    /\ UNCHANGED cuenta

\* _procesar_lote_clientes 2.1: _actualizar_cliente_estado(id, 'Procesando')
MarcarProcesando(t) ==
    /\ pc[t] = "marcar"
    /\ \E ok \in ResultadosBD :
        estado' = ActualizarClienteEstado(estado, cliente[t], "Procesando", ok)
    /\ pc' = [pc EXCEPT ![t] = "crear"]
    /\ UNCHANGED <<daemon_vars, datos_vars, flujo_vars, elapsed, lote, cliente, fila_vars>>

\* how _crear_proceso_para_cliente can end for client c: the database may
\* fail before anything else; the nombre/apellido check comes before the
\* lookup of the page
ResultadosCrear(c, sn) ==
    (IF c \in sn THEN {"sin_nombre"} ELSE {"ok", "sin_pagina"})
        \cup (IF bd_fiable THEN {} ELSE {"excepcion"})

\* _crear_proceso_para_cliente: a client without nombre or apellido is set
\* to 'Error' and None is returned; without an active funcion_judicial page
\* or on a database error None is returned; otherwise the proceso and its
\* consulta are committed in estado 'Pendiente'
CrearProceso(t) ==
    /\ pc[t] = "crear"
    /\ \E r \in ResultadosCrear(cliente[t], sin_nombre), ok \in ResultadosBD :
        CASE r = "ok" ->
               /\ proceso' = [proceso EXCEPT ![t] = [estado |-> "Pendiente"]]
               /\ consulta' = [consulta EXCEPT ![t] =
                                  [estado |-> "Pendiente", escenario |-> NULL]]
               /\ pc' = [pc EXCEPT ![t] = "ejecutar"]
               /\ UNCHANGED estado
          [] r = "sin_nombre" ->
               /\ estado' = ActualizarClienteEstado(estado, cliente[t],
                                                    "Error", ok)
               /\ pc' = [pc EXCEPT ![t] = "crear_fallo"]
               /\ UNCHANGED <<proceso, consulta>>
          [] OTHER ->
               /\ pc' = [pc EXCEPT ![t] = "crear_fallo"]
               /\ UNCHANGED <<estado, proceso, consulta>>
    /\ UNCHANGED <<daemon_vars, datos_vars, flujo_vars, elapsed, lote, cliente, sesion,
                   resultado, estrategias, reporte>>

\* _procesar_lote_clientes 2.2, `if not proceso_id`: the client is set to
\* 'Error' and the loop continues with the next client
CrearProcesoFallo(t) ==
    /\ pc[t] = "crear_fallo"
    /\ \E ok \in ResultadosBD :
        estado' = ActualizarClienteEstado(estado, cliente[t], "Error", ok)
    /\ pc' = [pc EXCEPT ![t] = "for"]
    /\ UNCHANGED <<daemon_vars, datos_vars, flujo_vars, elapsed, lote, cliente, fila_vars>>

\* the database sessions thread t holds open between two steps:
\* _ejecutar_consulta_funcion_judicial opens `db` on entry and closes it in
\* its `finally`, so the session is open before the browser strategy, before
\* step 7 and before the final commit; every other session is opened and
\* closed inside one step
SesionesAbiertas(t) ==
    IF pc[t] \in {"scraper", "resolver", "finalizar"} THEN 1 ELSE 0

\* how steps 1 to 5 of _ejecutar_consulta_funcion_judicial can end
ResultadosInicio ==
    IF bd_fiable THEN {"ok"}
    ELSE {"ok", "proceso_no_encontrado", "consulta_no_encontrada",
          "excepcion_bd"}

\* _ejecutar_consulta_funcion_judicial, steps 1 to 5: the proceso and the
\* consulta are read and committed as 'En_Proceso'.  A missing proceso
\* returns; a missing consulta commits the proceso as 'Error_Total' and
\* returns; a database error is caught by the outer handler, which rolls
\* back and returns
EjecutarInicio(t) ==
    /\ pc[t] = "ejecutar"
    /\ \E r \in ResultadosInicio :
        CASE r = "ok" ->
               /\ proceso' = [proceso EXCEPT ![t].estado = "En_Proceso"]
               /\ consulta' = [consulta EXCEPT ![t].estado = "En_Proceso"]
               /\ pc' = [pc EXCEPT ![t] = "scraper"]
          [] r = "consulta_no_encontrada" ->
               /\ proceso' = [proceso EXCEPT ![t].estado = "Error_Total"]
               /\ UNCHANGED consulta
               /\ pc' = [pc EXCEPT ![t] = "contar"]
          [] OTHER ->
               /\ UNCHANGED <<proceso, consulta>>
               /\ pc' = [pc EXCEPT ![t] = "contar"]
    /\ UNCHANGED <<daemon_vars, estado, datos_vars, flujo_vars, elapsed, lote, cliente, sesion,
                   resultado, estrategias, reporte>>

\* _ejecutar_consulta_funcion_judicial, step 6: the browser strategy
\* process_funcion_judicial_once is the only strategy the daemon invokes
EjecutarScraper(t) ==
    /\ pc[t] = "scraper"
    /\ \E r \in ResultadosScraper :
        resultado' = [resultado EXCEPT ![t] = r]
    /\ estrategias' = [estrategias EXCEPT ![t] = Append(@, "browser")]
    /\ pc' = [pc EXCEPT ![t] = "resolver"]
    /\ UNCHANGED <<daemon_vars, estado, datos_vars, flujo_vars, elapsed, lote, cliente,
                   proceso, consulta, sesion, reporte>>

\* `hay_resultados` of step 7
HayResultados(r) ==
    /\ r.scenario = "results_found"
    /\ r.total_pages > 0
    /\ r.screenshots > 0

\* the fields step 7 assigns in the open session
CambiosSesion(r) ==
    IF r.scenario = "raise"
    THEN [proceso |-> "Error_Total", consulta |-> "Fallida",
          escenario |-> NULL]
    ELSE IF r.scenario = "None"
    THEN [proceso |-> "Completado_Con_Errores", consulta |-> "Fallida",
          escenario |-> NULL]
    ELSE IF HayResultados(r)
    THEN [proceso |-> "Completado", consulta |-> "Exitosa",
          escenario |-> r.scenario]
    ELSE [proceso |-> "Completado_Con_Errores", consulta |-> "Fallida",
          escenario |-> r.scenario]

\* as EstadoResuelto, with a cycle without valid results ending in 'Error'
EstadoResueltoError(r) ==
    IF r.scenario \notin {"raise", "None"} /\ HayResultados(r)
    THEN "Procesado" ELSE "Error"

\* the estado step 7 gives the client
EstadoResuelto(r) ==
    IF r.scenario \notin {"raise", "None"} /\ HayResultados(r)
    THEN "Procesado" ELSE "Pendiente"

\* how _generar_reporte_para_proceso can end; it catches every exception:
\* the report is recorded; no DOCX file was produced; or db.flush() of the
\* DeReporte row raised, which leaves the caller's session unusable until
\* it is rolled back
ResultadosReporte ==
    {"registrado", "sin_archivo"}
        \cup (IF bd_fiable THEN {} ELSE {"flush_fallido"})

\* _ejecutar_consulta_funcion_judicial, step 7 and the scraper's except
\* branch: the outcome is written to the session, with valid results the
\* report is generated (step 8), and the client's estado is committed
\* through _actualizar_cliente_estado
EjecutarResolver(t) ==
    /\ pc[t] = "resolver"
    /\ sesion' = [sesion EXCEPT ![t] = CambiosSesion(resultado[t])]
    /\ IF EstadoResuelto(resultado[t]) = "Procesado"
       THEN \E r \in ResultadosReporte : reporte' = [reporte EXCEPT ![t] = r]
       ELSE UNCHANGED reporte
    /\ \E ok \in ResultadosBD :
        estado' = ActualizarClienteEstado(estado, cliente[t],
                                          EstadoResuelto(resultado[t]), ok)
    /\ pc' = [pc EXCEPT ![t] = "finalizar"]
    /\ UNCHANGED <<daemon_vars, datos_vars, flujo_vars, elapsed, lote, cliente, proceso,
                   consulta, resultado, estrategias>>

\* _ejecutar_consulta_funcion_judicial, step 9: the final commit writes the
\* session to the rows; on a database error, or when a failed flush has
\* left the session unusable, the commit raises and the session is rolled
\* back
EjecutarFinalizar(t) ==
    /\ pc[t] = "finalizar"
    /\ \E ok \in ResultadosBD :
        IF ok /\ reporte[t] # "flush_fallido"
        THEN /\ proceso' = [proceso EXCEPT ![t].estado = sesion[t].proceso]
             /\ consulta' = [consulta EXCEPT ![t] =
                                [estado |-> sesion[t].consulta,
                                 escenario |-> sesion[t].escenario]]
        ELSE UNCHANGED <<proceso, consulta>>
    /\ sesion' = [sesion EXCEPT ![t] = NoSesion]
    /\ pc' = [pc EXCEPT ![t] = "contar"]
    /\ UNCHANGED <<daemon_vars, estado, datos_vars, flujo_vars, elapsed, lote, cliente,
                   resultado, estrategias, reporte>>

\* _procesar_lote_clientes 2.4: the counter is incremented under the lock
IncrementarContador(t) ==
    /\ pc[t] = "contar"
    /\ clientes_procesados_en_lote' = clientes_procesados_en_lote + 1
    /\ pc' = [pc EXCEPT ![t] = "for"]
    /\ proceso' = [proceso EXCEPT ![t] = NoFila]
    /\ consulta' = [consulta EXCEPT ![t] = NoConsulta]
    /\ resultado' = [resultado EXCEPT ![t] = NoResultado]
    /\ estrategias' = [estrategias EXCEPT ![t] = <<>>]
    /\ reporte' = [reporte EXCEPT ![t] = NULL]
    /\ UNCHANGED <<running, thread, ultimo_lote_inicio, detener_pc, estado,
                   datos_vars, llamada_vars, elapsed, lote, cliente, sesion>>
    /\ Acceder("_procesar_lote_clientes", {"clientes_procesados_en_lote"},
               TRUE)
    /\ Contar(t, cuenta.ejecutados[t] + 1)

\* _daemon_loop, the wait: `while elapsed < wait_time and running` sleeps
\* `interval` seconds and adds them to elapsed; the loop is left when
\* wait_time has passed or when running is read false (elapsed, a local
\* set to 0 before the loop, is cleared here on leaving it)
Esperar(t) ==
    /\ pc[t] = "espera"
    /\ IF elapsed[t] < wait_time /\ running
       THEN /\ elapsed' = [elapsed EXCEPT ![t] = @ + interval]
            /\ UNCHANGED pc
       ELSE /\ elapsed' = [elapsed EXCEPT ![t] = 0]
            /\ pc' = [pc EXCEPT ![t] = "tras_espera"]
    /\ UNCHANGED <<daemon_vars, estado, datos_vars, llamada_vars, lote, cliente, fila_vars>>
    /\ IF elapsed[t] < wait_time
       THEN Acceder("_daemon_loop", {"running"}, FALSE)
       ELSE UNCHANGED acceso
    /\ UNCHANGED cuenta

\* as TrasEspera, with the break not guarded by the running flag
TrasEsperaSinGuarda(t) ==
    /\ pc[t] = "tras_espera"
    /\ pc' = [pc EXCEPT ![t] = "done"]
    /\ UNCHANGED <<daemon_vars, estado, datos_vars, flujo_vars, elapsed, lote, cliente, fila_vars>>

\* _daemon_loop, `if not daemon_state.running: break` after the wait
TrasEspera(t) ==
    /\ pc[t] = "tras_espera"
    /\ pc' = [pc EXCEPT ![t] = IF running THEN "while" ELSE "done"]
    /\ UNCHANGED <<daemon_vars, estado, datos_vars, llamada_vars, elapsed, lote, cliente, fila_vars>>
    /\ Acceder("_daemon_loop", {"running"}, FALSE)
    /\ UNCHANGED cuenta

\* as ManejarExcepcion, with the try around the while loop instead of
\* inside it: the exception ends the loop
ManejarExcepcionFueraDelBucle(t) ==
    /\ pc[t] = "except"
    /\ pc' = [pc EXCEPT ![t] = "done"]
    /\ UNCHANGED <<daemon_vars, estado, datos_vars, flujo_vars, elapsed, lote, cliente, fila_vars>>

\* _daemon_loop, `except Exception`: log, sleep one minute, next iteration
ManejarExcepcion(t) ==
    /\ pc[t] = "except"
    /\ pc' = [pc EXCEPT ![t] = "while"]
    /\ UNCHANGED <<daemon_vars, estado, datos_vars, flujo_vars, elapsed, lote, cliente, fila_vars>>

\* one step of daemon thread t
HiloPaso(t) ==
    \/ HiloWhile(t)
    \/ ProcesarLoteInicio(t)
    \/ ObtenerClientesFalla(t)
    \/ ObtenerClientesOk(t)
    \/ ForCliente(t)
    \/ MarcarProcesando(t)
    \/ CrearProceso(t)
    \/ CrearProcesoFallo(t)
    \/ EjecutarInicio(t)
    \/ EjecutarScraper(t)
    \/ EjecutarResolver(t)
    \/ EjecutarFinalizar(t)
    \/ IncrementarContador(t)
    \/ Esperar(t)
    \/ TrasEspera(t)
    \/ ManejarExcepcion(t)

\* a step of some daemon thread
Hilo ==
    \/ \E t \in Hilos : HiloWhile(t)
    \/ \E t \in Hilos : ProcesarLoteInicio(t)
    \/ \E t \in Hilos : ObtenerClientesFalla(t)
    \/ \E t \in Hilos : ObtenerClientesOk(t)
    \/ \E t \in Hilos : ForCliente(t)
    \/ \E t \in Hilos : MarcarProcesando(t)
    \/ \E t \in Hilos : CrearProceso(t)
    \/ \E t \in Hilos : CrearProcesoFallo(t)
    \/ \E t \in Hilos : EjecutarInicio(t)
    \/ \E t \in Hilos : EjecutarScraper(t)
    \/ \E t \in Hilos : EjecutarResolver(t)
    \/ \E t \in Hilos : EjecutarFinalizar(t)
    \/ \E t \in Hilos : IncrementarContador(t)
    \/ \E t \in Hilos : Esperar(t)
    \/ \E t \in Hilos : TrasEspera(t)
    \/ \E t \in Hilos : ManejarExcepcion(t)

Next ==
    \/ IniciarDaemon
    \/ DetenerSenal
    \/ DetenerJoin
    \/ Hilo

\* the daemon under any interleaving of start, stop and its threads
Spec == Init /\ [][Next]_vars

\* the same with one daemon thread alive at a time
InitUnHilo == InitCon(NumClientes, 1, {1}, {FALSE})

SpecUnHilo == InitUnHilo /\ [][Next]_vars

\* one daemon thread, with every access to daemon_state recorded
InitCerrojo ==
    /\ InitDaemon(NumClientes, 1, {1}, {FALSE})
    /\ SoloFlujo("acceso")
    /\ acceso = [NoAcceso EXCEPT !.registra = TRUE]

SpecCerrojo == InitCerrojo /\ [][Next]_vars

\* the daemon of Spec, with the clients each thread counts recorded
InitCuenta ==
    /\ InitDaemon(NumClientes, MaxHilos, {1}, {FALSE})
    /\ SoloFlujo("cuenta")
    /\ cuenta = [registra |-> TRUE, ejecutados |-> [t \in 1..MaxHilos |-> 0]]

SpecCuenta == InitCuenta /\ [][Next]_vars

\* the daemon once started and never stopped, over a table of more
\* pending clients than one batch takes
InitLote == InitCon(NumClientesLote, 1, {}, {FALSE})

NextEnMarcha ==
    \/ IniciarDaemon
    \/ Hilo

SpecLote == InitLote /\ [][NextEnMarcha]_vars

\* the daemon thread is scheduled: while it can take a step it takes one
Justicia == WF_vars(HiloPaso(1))

SpecUnHiloJusto == SpecUnHilo /\ Justicia

\* the scheduled daemon, started and stopped at will, over the small table
\* and a database that may fail or over the large table and a reliable
\* database
InitJusto == InitUnHilo \/ InitCon(NumClientesLote, 1, {}, {TRUE})

SpecJusto == InitJusto /\ [][Next]_vars /\ Justicia

\* one daemon thread over the small table, with a database that never
\* fails or with one that may fail
InitUnHiloBD == InitCon(NumClientes, 1, {1}, BOOLEAN)

SpecUnHiloBD == InitUnHiloBD /\ [][Next]_vars

\* DeCliente.estado: the values of the column
EstadosCliente == {"Pendiente", "Procesando", "Procesado", "Error"}

\* update_cliente_estado (tracking_professional.py): another operation sets
\* the estado of a client to the value it is given; a database error is
\* rolled back and leaves the row as it was
UpdateClienteEstado ==
    /\ \E c \in Clientes, e \in EstadosCliente, ok \in ResultadosBD :
          estado' = ActualizarClienteEstado(estado, c, e, ok)
    /\ UNCHANGED <<daemon_vars, datos_vars, flujo_vars, elapsed, pc, lote, cliente,
                   fila_vars>>

NextConOperador ==
    \/ Next
    \/ UpdateClienteEstado

\* one daemon thread, with update_cliente_estado called at any moment
SpecConOperador == InitUnHilo /\ [][NextConOperador]_vars

\* ------------------------------------------- capture_all_result_pages
\* (flows/funcion_judicial.py).  captura.screenshots is len(screenshots);
\* captura.clics counts the clicks on the next-page control that succeeded,
\* captura.paginas lists the page numbers of the screenshots in the order
\* of the list, captura.fin tells which test ended the loop.
\* A step outside every try block fails by raising a WebDriver exception,
\* which leaves the function.
daemon_solo == <<daemon_vars, estado, datos_vars, elapsed, pc, lote, cliente,
                 fila_vars, acceso, cuenta>>
daemon_todo == <<daemon_solo, reintentos, manual, bloqueo>>

\* what a call of capture_all_result_pages, of generar_reporte_httpx and
\* of process_funcion_judicial_once leaves alone
resto_captura == <<daemon_todo, httpx, once, verificacion, deteccion, boton>>
resto_httpx == <<daemon_todo, captura, once, verificacion, deteccion, boton>>
resto_once == <<daemon_todo, captura, httpx, verificacion, deteccion, boton>>
resto_verificacion == <<daemon_todo, captura, httpx, once, deteccion, boton>>
resto_deteccion == <<daemon_todo, captura, httpx, once, verificacion, boton>>
resto_boton == <<daemon_todo, captura, httpx, once, verificacion, deteccion>>
resto_reintentos == <<daemon_solo, manual, bloqueo, captura, httpx, once,
                      verificacion, deteccion, boton>>
resto_manual == <<daemon_solo, reintentos, bloqueo, captura, httpx, once,
                  verificacion, deteccion, boton>>
resto_bloqueo == <<daemon_solo, reintentos, manual, captura, httpx, once,
                   verificacion, deteccion, boton>>

\* the first page is captured; capture_results_page gives None on failure
CapturarPrimera ==
    /\ captura.pc = "primera"
    /\ \E screenshot \in BOOLEAN :
          captura' = [captura EXCEPT
                         !.screenshots = IF screenshot THEN 1 ELSE 0,
                         !.paginas = IF screenshot THEN <<1>> ELSE <<>>,
                         !.pc = "scroll"]
    /\ UNCHANGED resto_captura

\* the scrolls down to the paginator, outside every try block
ScrollInicial ==
    /\ captura.pc = "scroll"
    /\ \E ok \in BOOLEAN :
          captura' = [captura EXCEPT !.pc = IF ok THEN "while" ELSE "raise"]
    /\ UNCHANGED resto_captura

\* as WhileCaptura, with the loop entered whatever current_page is
WhileCapturaSinLimite ==
    /\ captura.pc = "while"
    /\ captura' = [captura EXCEPT !.pc = "buscar"]
    /\ UNCHANGED resto_captura

\* `while current_page < max_pages`
WhileCaptura ==
    /\ captura.pc = "while"
    /\ captura' = IF captura.current_page < captura.max_pages
                   THEN [captura EXCEPT !.pc = "buscar"]
                   ELSE [captura EXCEPT !.fin = "while", !.pc = "return"]
    /\ UNCHANGED resto_captura

\* find_next_page_button: the control, None (break), or an exception other
\* than NoSuchElementException, which it does not catch
BuscarSiguiente ==
    /\ captura.pc = "buscar"
    /\ \E next_button \in {"encontrado", "None", "excepcion"} :
          captura' = [captura EXCEPT
                         !.fin = IF next_button = "None"
                                 THEN "sin_boton" ELSE @,
                         !.pc = CASE next_button = "encontrado" -> "habilitado"
                                  [] next_button = "None" -> "return"
                                  [] OTHER -> "raise"]
    /\ UNCHANGED resto_captura

\* is_next_button_enabled: false ends the pagination; it raises nothing
\* (on an error it answers true)
BotonHabilitado ==
    /\ captura.pc = "habilitado"
    /\ \E habilitado \in BOOLEAN :
          captura' = IF habilitado
                     THEN [captura EXCEPT !.pc = "posicionar"]
                     ELSE [captura EXCEPT !.fin = "deshabilitado",
                                          !.pc = "return"]
    /\ UNCHANGED resto_captura

\* scrollIntoView of the control, outside every try block
PosicionarBoton ==
    /\ captura.pc = "posicionar"
    /\ \E ok \in BOOLEAN :
          captura' = [captura EXCEPT !.pc = IF ok THEN "clic" ELSE "raise"]
    /\ UNCHANGED resto_captura

\* the three click attempts, each in its own try; when all fail the
\* pagination ends
ClicSiguiente ==
    /\ captura.pc = "clic"
    /\ \E click_success \in BOOLEAN :
          captura' = IF click_success
                     THEN [captura EXCEPT !.clics = @ + 1, !.pc = "cargar"]
                     ELSE [captura EXCEPT !.fin = "clic", !.pc = "return"]
    /\ UNCHANGED resto_captura

\* the wait for the new page (a TimeoutException is caught),
\* current_page += 1 and the scrolls over the new page, outside every try
CargarPagina ==
    /\ captura.pc = "cargar"
    /\ \E ok \in BOOLEAN :
          captura' = IF ok
                     THEN [captura EXCEPT !.current_page = @ + 1,
                                          !.pc = "capturar"]
                     ELSE [captura EXCEPT !.pc = "raise"]
    /\ UNCHANGED resto_captura

\* the new page is captured; a failed capture appends nothing
CapturarPagina ==
    /\ captura.pc = "capturar"
    /\ \E screenshot \in BOOLEAN :
          captura' = [captura EXCEPT
                         !.screenshots = IF screenshot THEN @ + 1 ELSE @,
                         !.paginas = IF screenshot
                                     THEN Append(@, captura.current_page)
                                     ELSE @,
                         !.pc = "preparar"]
    /\ UNCHANGED resto_captura

\* the scroll to the end of the page, outside every try block, and
\* `if current_page >= max_pages: break`
PrepararSiguiente ==
    /\ captura.pc = "preparar"
    /\ \E ok \in BOOLEAN :
          captura' = IF ~ok THEN [captura EXCEPT !.pc = "raise"]
                     ELSE IF captura.current_page >= captura.max_pages
                     THEN [captura EXCEPT !.fin = "limite", !.pc = "return"]
                     ELSE [captura EXCEPT !.pc = "while"]
    /\ UNCHANGED resto_captura

NextCaptura ==
    \/ CapturarPrimera
    \/ ScrollInicial
    \/ WhileCaptura
    \/ BuscarSiguiente
    \/ BotonHabilitado
    \/ PosicionarBoton
    \/ ClicSiguiente
    \/ CargarPagina
    \/ CapturarPagina
    \/ PrepararSiguiente

\* capture_all_result_pages(driver, base_name, m) is entered
LlamadaCaptura(m) ==
    [pc |-> "primera", max_pages |-> m, current_page |-> 1,
     screenshots |-> 0, clics |-> 0, paginas |-> <<>>, fin |-> NULL]

\* capture_all_result_pages is called with some max_pages >= 1
InitCaptura ==
    /\ InitDaemon(1, 1, {}, {TRUE})
    /\ SoloFlujo("captura")
    /\ \E m \in 1..MaxPaginasCaptura :
          captura = LlamadaCaptura(m)

\* a call of capture_all_result_pages that keeps taking its steps
SpecCaptura == InitCaptura /\ [][NextCaptura]_vars /\ WF_vars(NextCaptura)

\* ---------------------------------------------- generar_reporte_httpx
\* (app/services/fj_httpx_fallback.py).  httpx.paginas keeps the number of
\* records of each page read, httpx.filas the "No." written in each row of
\* the document, httpx.fin why the loop over the pages ended, and
\* httpx.guardado whether doc.save succeeded.

\* the numbers first, first + 1, ..., first + n - 1
Numeros(first, n) == [i \in 1..n |-> first + i - 1]

\* as AcumularPagina, with `total_resultados = len(resultados)` for `+=`
AcumularPaginaSinSumar(h, n) ==
    [h EXCEPT !.alguna_pagina_con_datos = TRUE,
              !.pagina_actual = h.page,
              !.total_resultados = n,
              !.filas = @ \o Numeros(h.contador, n),
              !.contador = @ + n,
              !.paginas = Append(@, n),
              !.page = @ + 1]

\* the body of the loop for a page that gave n > 0 records: the totals are
\* updated and one row per record is numbered with contador
AcumularPagina(h, n) ==
    [h EXCEPT !.alguna_pagina_con_datos = TRUE,
              !.pagina_actual = h.page,
              !.total_resultados = @ + n,
              !.filas = @ \o Numeros(h.contador, n),
              !.contador = @ + n,
              !.paginas = Append(@, n),
              !.page = @ + 1]

\* (None, {"scenario": "error", ...}) of both error returns
RetornoError ==
    [ruta |-> "None", scenario |-> "error", total_procesos |-> 0,
     total_paginas |-> 0]

\* what _consultar_pagina_api and the page it gives can be: None, an
\* empty list, a list of n records, or a list with a record that is no
\* dictionary
RespuestasApi ==
    {[tipo |-> x, n |-> 0] : x \in {"None", "vacia", "malformada"}}
        \cup {[tipo |-> "lista", n |-> k] : k \in 1..MaxRegistros}

\* _consultar_pagina_api(nombre_cliente, page) is called
Consultada(h) == [h EXCEPT !.consultadas = Append(@, h.page)]

\* as ConsultarPaginaApi, with a failed page skipped (`continue`)
ConsultarPaginaApiSinParar ==
    /\ httpx.pc = "for"
    /\ httpx.page <= MaxPaginasApi
    /\ \E resultados \in RespuestasApi :
          LET h == Consultada(httpx)
          IN  httpx' =
                CASE resultados.tipo = "None" ->
                       [h EXCEPT !.page = @ + 1]
                  [] resultados.tipo = "vacia" ->
                       [h EXCEPT !.fin = "vacia", !.pc = "guardar"]
                  [] resultados.tipo = "malformada" ->
                       [h EXCEPT !.fin = "excepcion", !.pc = "return",
                                 !.retorno = RetornoError]
                  [] OTHER -> AcumularPagina(h, resultados.n)
    /\ UNCHANGED resto_httpx

\* one iteration of `for page in range(1, MAX_PAGES + 1)`:
\* _consultar_pagina_api gives None (non-200, timeout, exception: break),
\* an empty list (break) or n records; a record that is no dictionary
\* raises in the loop body and the outer handler returns the error
ConsultarPaginaApi ==
    /\ httpx.pc = "for"
    /\ httpx.page <= MaxPaginasApi
    /\ \E resultados \in RespuestasApi :
          LET h == Consultada(httpx)
          IN  httpx' =
                CASE resultados.tipo = "None" ->
                       [h EXCEPT !.fin = "fallo", !.pc = "guardar"]
                  [] resultados.tipo = "vacia" ->
                       [h EXCEPT !.fin = "vacia", !.pc = "guardar"]
                  [] resultados.tipo = "malformada" ->
                       [h EXCEPT !.fin = "excepcion", !.pc = "return",
                                 !.retorno = RetornoError]
                  [] OTHER -> AcumularPagina(h, resultados.n)
    /\ UNCHANGED resto_httpx

\* the range of the loop is exhausted after MAX_PAGES pages
FinPaginasApi ==
    /\ httpx.pc = "for"
    /\ httpx.page > MaxPaginasApi
    /\ httpx' = [httpx EXCEPT !.fin = "limite", !.pc = "guardar"]
    /\ UNCHANGED resto_httpx

\* as Escenario, with the report refused when no page gave data
EscenarioSinDatosError(h) ==
    IF h.alguna_pagina_con_datos THEN "results_found" ELSE "error"

\* "Determinar escenario": results_found when some page gave data,
\* no_results otherwise
Escenario(h) ==
    IF h.alguna_pagina_con_datos THEN "results_found" ELSE "no_results"

\* the scenario is decided and the document saved; a failing doc.save
\* returns the error
GuardarReporteHttpx ==
    /\ httpx.pc = "guardar"
    /\ \E ok \in BOOLEAN :
          httpx' =
            IF ok
            THEN [httpx EXCEPT
                     !.guardado = TRUE,
                     !.pc = "return",
                     !.retorno =
                        [ruta |-> "ruta_completa",
                         scenario |-> Escenario(httpx),
                         total_procesos |-> httpx.total_resultados,
                         total_paginas |-> httpx.pagina_actual]]
            ELSE [httpx EXCEPT !.pc = "return", !.retorno = RetornoError]
    /\ UNCHANGED resto_httpx

NextHttpx ==
    \/ ConsultarPaginaApi
    \/ FinPaginasApi
    \/ GuardarReporteHttpx

\* generar_reporte_httpx is called: contador = 1, pagina_actual = 1
InitHttpx ==
    /\ InitDaemon(1, 1, {}, {TRUE})
    /\ SoloFlujo("httpx")
    /\ httpx = [NoHttpx EXCEPT !.pc = "for", !.page = 1, !.contador = 1,
                                !.pagina_actual = 1]

\* a call of generar_reporte_httpx
SpecHttpx == InitHttpx /\ [][NextHttpx]_vars

\* ------------------------------------------------------------ detectors
\* detect_no_results_modal, detect_results_loaded (flows/funcion_judicial.py)
\* and detectar_sin_procesos_judiciales_scraping
\* (app/services/detectores_consulta.py) read the rendered page.  A page is
\* described by what the checks can see of it: the text of the displayed
\* snack-bar ("sin_resultados" stands for 'La consulta no devolvió
\* resultados.'), which of the seven row selectors finds visible rows (0:
\* none) and whether the results container is displayed and taller than
\* 200px.
Paginas ==
    [snack : {"ninguno", "sin_resultados", "otro"},
     filas : 0..7,
     contenedor : BOOLEAN]

\* the checks of a detector in the order of the code: <<detector, i>>
Chequeos(d) ==
    [i \in 1..(IF d = "sin_procesos_scraping" THEN 7 ELSE 8) |-> <<d, i>>]

\* whether check c finds what it looks for in page p.
\* detect_no_results_modal: selector 1 looks for the text in a div;
\* selectors 2 to 5 look for it followed by ' Cerrar', misspelt
\* ('resultadosn'), in a p element and in a class attribute, which the
\* snack-bar does not offer; selectors 6 and 7 look for the snack-bar and
\* its label whatever their text; check 8 is the script over
\* document.body.innerText.
\* detect_results_loaded: selectors 1 to 7 look for visible rows, check 8
\* for the results container.
\* detectar_sin_procesos_judiciales_scraping: xpaths 1 to 5, the overlay
\* text (6) and the script (7) all compare with the text.
Positivo(c, p) ==
    CASE c[1] = "no_results_modal" ->
           CASE c[2] \in {1, 8} -> p.snack = "sin_resultados"
             [] c[2] \in {6, 7} -> p.snack # "ninguno"
             [] OTHER -> FALSE
      [] c[1] = "results_loaded" ->
           IF c[2] = 8 THEN p.contenedor ELSE p.filas = c[2]
      [] OTHER -> p.snack = "sin_resultados"

\* as Recorrer, with the exception of a check ending the detector with
\* False
RECURSIVE RecorrerHastaFallo(_, _, _, _)
RecorrerHastaFallo(cs, p, F, probados) ==
    IF cs = <<>>
    THEN [valor |-> FALSE, probados |-> probados]
    ELSE IF Head(cs) \in F
         THEN [valor |-> FALSE, probados |-> Append(probados, Head(cs))]
         ELSE IF Positivo(Head(cs), p)
              THEN [valor |-> TRUE, probados |-> Append(probados, Head(cs))]
              ELSE RecorrerHastaFallo(Tail(cs), p, F,
                                      Append(probados, Head(cs)))

\* the checks cs are tried in order on page p; a check of F raises, which
\* its `except:` turns into `continue` or `pass`; the first check that
\* finds something returns True, and False is returned after the last
RECURSIVE Recorrer(_, _, _, _)
Recorrer(cs, p, F, probados) ==
    IF cs = <<>>
    THEN [valor |-> FALSE, probados |-> probados]
    ELSE IF Head(cs) \notin F /\ Positivo(Head(cs), p)
         THEN [valor |-> TRUE, probados |-> Append(probados, Head(cs))]
         ELSE Recorrer(Tail(cs), p, F, Append(probados, Head(cs)))

detect_no_results_modal(p, F) ==
    Recorrer(Chequeos("no_results_modal"), p, F, <<>>)

detect_results_loaded(p, F) ==
    Recorrer(Chequeos("results_loaded"), p, F, <<>>)

detectar_sin_procesos_judiciales_scraping(p, F) ==
    Recorrer(Chequeos("sin_procesos_scraping"), p, F, <<>>)

\* the checks of the detectors D
ChequeosDe(D) == UNION {{Chequeos(d)[i] : i \in DOMAIN Chequeos(d)} : d \in D}

\* the sets of at most k of the checks T
RECURSIVE Hasta(_, _)
Hasta(T, k) ==
    IF k = 0 THEN {{}}
    ELSE LET S == Hasta(T, k - 1) IN S \cup {F \cup {c} : F \in S, c \in T}

\* the checks that raise in one run: few of them, or all (a dead driver)
ConjuntosDeFallos(D) == Hasta(ChequeosDe(D), MaxFallos) \cup {ChequeosDe(D)}

\* --------------------------------------- process_funcion_judicial_once
\* (flows/funcion_judicial.py).  once.driver tells whether create_driver
\* returned, once.eventos lists the diagnostic screenshot of the handler
\* and the calls of close_driver in their order, once.fallo names the step
\* that ended the call early, once.salida how the try block was left,
\* once.screenshots and once.total_pages are the fields of `resultado`.

\* an exception leaves the try block for the handler
Lanza(o) == [o EXCEPT !.pc = "except"]

\* `return None` inside the try block, after step `paso` failed
ReturnNone(o, paso) ==
    [o EXCEPT !.fallo = paso, !.salida = "return_none", !.pc = "finally"]

\* 1. create_driver returns the driver or raises
CrearDriver ==
    /\ once.pc = "crear"
    /\ \E ok \in BOOLEAN :
          once' = IF ok THEN [once EXCEPT !.driver = TRUE, !.pc = "navegar"]
                        ELSE Lanza(once)
    /\ UNCHANGED resto_once

\* 2. driver.get, the first screenshot and the simulated reading
NavegarPagina ==
    /\ once.pc = "navegar"
    /\ \E ok \in BOOLEAN :
          once' = IF ok THEN [once EXCEPT !.pc = "campo"] ELSE Lanza(once)
    /\ UNCHANGED resto_once

\* 3. find_name_input gives the element, None after both timeouts, or
\* raises what is no TimeoutException
BuscarCampo ==
    /\ once.pc = "campo"
    /\ \E r \in {"elemento", "None", "raise"} :
          once' = CASE r = "elemento" -> [once EXCEPT !.pc = "escribir"]
                    [] r = "None" -> ReturnNone(once, "campo")
                    [] OTHER -> Lanza(once)
    /\ UNCHANGED resto_once

\* 4. the name is typed, screenshot, scrolls
EscribirNombre ==
    /\ once.pc = "escribir"
    /\ \E ok \in BOOLEAN :
          once' = IF ok THEN [once EXCEPT !.pc = "boton"] ELSE Lanza(once)
    /\ UNCHANGED resto_once

\* 5. find_search_button gives the element, None, or raises
BuscarBotonBusqueda ==
    /\ once.pc = "boton"
    /\ \E r \in {"elemento", "None", "raise"} :
          once' = CASE r = "elemento" -> [once EXCEPT !.pc = "clic1"]
                    [] r = "None" -> ReturnNone(once, "boton")
                    [] OTHER -> Lanza(once)
    /\ UNCHANGED resto_once

\* 6. click #1: human_click_element gives True, False, or raises
ClicUno ==
    /\ once.pc = "clic1"
    /\ \E r \in {"True", "False", "raise"} :
          once' = CASE r = "True" -> [once EXCEPT !.clics = Append(@, r),
                                                  !.pc = "clics23"]
                    [] r = "False" ->
                         ReturnNone([once EXCEPT !.clics = Append(@, r)],
                                    "clic1")
                    [] OTHER -> Lanza([once EXCEPT !.clics = Append(@, r)])
    /\ UNCHANGED resto_once

\* an unprotected step (a screenshot, a scroll, a wait) raised
LanzaEn(o, paso) == [Lanza(o) EXCEPT !.fallo = paso]

\* as ClicDos, with a failed click #2 ending the call as click #1 does
ClicDosObligatorio ==
    /\ once.pc = "clics23"
    /\ \E previo \in BOOLEAN, r \in {"True", "False", "raise"} :
          once' = IF ~previo THEN LanzaEn(once, "captura_03")
                  ELSE IF r = "True"
                  THEN [once EXCEPT !.clics = Append(@, r), !.pc = "clic3"]
                  ELSE ReturnNone([once EXCEPT !.clics = Append(@, r)],
                                  "clic2")
    /\ UNCHANGED resto_once

\* the screenshot and the scroll after click #1, outside every try block,
\* then click #2: human_click_offset gives True, False or raises, and the
\* call goes on in the three cases
ClicDos ==
    /\ once.pc = "clics23"
    /\ \E previo \in BOOLEAN, r \in {"True", "False", "raise"} :
          once' = IF ~previo THEN LanzaEn(once, "captura_03")
                  ELSE [once EXCEPT !.clics = Append(@, r), !.pc = "clic3"]
    /\ UNCHANGED resto_once

\* the screenshot after click #2, outside every try block; click #3: the
\* button is looked up again and, when found, clicked (True, False or
\* raises), without one when find_search_button gives None or raises; the
\* call goes on in every case to the screenshot after click #3, outside
\* every try block
ClicTres ==
    /\ once.pc = "clic3"
    /\ \E previo, posterior \in BOOLEAN,
          r \in {"True", "False", "raise", "sin_boton"} :
          LET o == [once EXCEPT !.clics = IF r = "sin_boton" THEN @
                                          ELSE Append(@, r)]
          IN  once' = IF ~previo THEN LanzaEn(once, "captura_04")
                      ELSE IF ~posterior THEN LanzaEn(o, "captura_05")
                      ELSE [o EXCEPT !.pc = "detectar"]
    /\ UNCHANGED resto_once

\* 7. detect_no_results_modal and detect_results_loaded read the page
\* the site answered with
DetectarRespuesta ==
    /\ once.pc = "detectar"
    /\ \E p \in Paginas,
          F \in ConjuntosDeFallos({"no_results_modal", "results_loaded"}) :
          once' = [once EXCEPT
                     !.has_no_results_modal =
                         detect_no_results_modal(p, F).valor,
                     !.has_results = detect_results_loaded(p, F).valor,
                     !.pc = "escenario"]
    /\ UNCHANGED resto_once

\* as EscenarioOnce, with the result rows tested first
EscenarioOnceFilasPrimero(o) ==
    IF o.has_results THEN "results_found"
    ELSE IF o.has_no_results_modal THEN "no_results"
    ELSE "indeterminate"

\* the scenario the two detections select
EscenarioOnce(o) ==
    IF o.has_no_results_modal THEN "no_results"
    ELSE IF o.has_results THEN "results_found"
    ELSE "indeterminate"

\* an entry of resultado["screenshots"]: the screenshot of result page n,
\* another screenshot, or the None of a capture that failed
Artefacto(tipo, n) == [tipo |-> tipo, n |-> n]

\* the list capture_all_result_pages returns, q being the page numbers
ArtefactosDePaginas(q) == [i \in 1..Len(q) |-> Artefacto("page", q[i])]

\* the branches 'no_results' and 'indeterminate': the screenshot is
\* appended and total_pages is 0; capture_no_results_screenshot swallows
\* its failures and gives None, _save_screenshot may raise
ResolverEscenario ==
    /\ once.pc = "escenario"
    /\ EscenarioOnce(once) # "results_found"
    /\ IF EscenarioOnce(once) = "no_results"
       THEN \E shot \in {"SIN_RESULTADOS", "None"} :
               once' = [once EXCEPT
                          !.scenario = "no_results",
                          !.screenshots = Append(@, Artefacto(shot, 0)),
                          !.total_pages = 0,
                          !.pc = "final"]
       ELSE \E ok \in BOOLEAN :
               once' = IF ok
                       THEN [once EXCEPT
                               !.scenario = "indeterminate",
                               !.screenshots =
                                   Append(@, Artefacto("06_indeterminado", 0)),
                               !.total_pages = 0,
                               !.pc = "final"]
                       ELSE Lanza(once)
    /\ UNCHANGED resto_once

\* the branch 'results_found' calls capture_all_result_pages with its
\* default max_pages, which MaxPaginasCaptura stands for
LlamarCaptura ==
    /\ once.pc = "escenario"
    /\ EscenarioOnce(once) = "results_found"
    /\ once' = [once EXCEPT !.pc = "paginar"]
    /\ captura' = LlamadaCaptura(MaxPaginasCaptura)
    /\ UNCHANGED <<daemon_todo, httpx, verificacion, deteccion, boton>>

\* as ResultadosEncontrados, with resultado["screenshots"] left as it was
ResultadosEncontradosSinLista ==
    /\ once.pc = "paginar"
    /\ captura.pc \in {"return", "raise"}
    /\ once' = IF captura.pc = "return"
               THEN [once EXCEPT
                       !.scenario = "results_found",
                       !.total_pages = Len(captura.paginas),
                       !.pc = "final"]
               ELSE Lanza(once)
    /\ UNCHANGED resto_once

\* capture_all_result_pages has returned its list, which replaces
\* resultado["screenshots"] and whose length is total_pages, or has raised
ResultadosEncontrados ==
    /\ once.pc = "paginar"
    /\ captura.pc \in {"return", "raise"}
    /\ once' = IF captura.pc = "return"
               THEN [once EXCEPT
                       !.scenario = "results_found",
                       !.screenshots = ArtefactosDePaginas(captura.paginas),
                       !.total_pages = Len(captura.paginas),
                       !.pc = "final"]
               ELSE Lanza(once)
    /\ UNCHANGED resto_once

\* the final screenshot is appended to resultado["screenshots"], then the
\* last wait and `return resultado`
ScreenshotFinal ==
    /\ once.pc = "final"
    /\ \E ok \in BOOLEAN :
          once' = IF ok
                  THEN [once EXCEPT
                          !.screenshots = Append(@, Artefacto("99_FINAL", 0)),
                          !.salida = "return",
                          !.pc = "finally"]
                  ELSE Lanza(once)
    /\ UNCHANGED resto_once

\* `except Exception`: with a driver the diagnostic screenshot is tried,
\* and an exception of _save_screenshot leaves the handler; otherwise
\* `return None`
ExceptOnce ==
    /\ once.pc = "except"
    /\ \E ok \in IF once.driver THEN BOOLEAN ELSE {TRUE} :
          once' = [once EXCEPT
                     !.eventos = IF once.driver
                                 THEN Append(@, "diagnostico") ELSE @,
                     !.salida = IF ok THEN "except_none" ELSE "raise",
                     !.pc = "finally"]
    /\ UNCHANGED resto_once

\* what the caller gets after the finally block
RetornoOnce(o) ==
    CASE o.salida = "return" -> o.scenario
      [] o.salida = "raise" -> "raise"
      [] OTHER -> "None"

\* as FinallyOnce, with the driver closed at the end of the try block only
FinallyOnceSoloNormal ==
    /\ once.pc = "finally"
    /\ once' = [once EXCEPT
                   !.eventos = IF once.driver /\ once.salida = "return"
                               THEN Append(@, "close_driver") ELSE @,
                   !.retorno = RetornoOnce(once),
                   !.pc = "fin"]
    /\ UNCHANGED resto_once

\* `finally`: with a driver, close_driver is called and its exception
\* swallowed
FinallyOnce ==
    /\ once.pc = "finally"
    /\ once' = [once EXCEPT
                   !.eventos = IF once.driver
                               THEN Append(@, "close_driver") ELSE @,
                   !.retorno = RetornoOnce(once),
                   !.pc = "fin"]
    /\ UNCHANGED resto_once

NextOnce ==
    \/ CrearDriver
    \/ NavegarPagina
    \/ BuscarCampo
    \/ EscribirNombre
    \/ BuscarBotonBusqueda
    \/ ClicUno
    \/ ClicDos
    \/ ClicTres
    \/ DetectarRespuesta
    \/ ResolverEscenario
    \/ LlamarCaptura
    \/ NextCaptura
    \/ ResultadosEncontrados
    \/ ScreenshotFinal
    \/ ExceptOnce
    \/ FinallyOnce

\* process_funcion_judicial_once is called: driver = None
InitOnce ==
    /\ InitDaemon(1, 1, {}, {TRUE})
    /\ SoloFlujo("once")
    /\ once = [NoOnce EXCEPT !.pc = "crear"]

\* a call of process_funcion_judicial_once
SpecOnce == InitOnce /\ [][NextOnce]_vars

\* ------------------------------------------- process_funcion_judicial
\* (flows/funcion_judicial.py).  reintentos.intentos lists what each call
\* of process_funcion_judicial_once gave, reintentos.esperas counts the
\* sleeps between attempts.

\* the characters str.strip() removes
Blancos == {" "}

\* str.strip(): the text without its leading and trailing blanks
RECURSIVE Strip(_)
Strip(x) ==
    IF x = <<>> THEN x
    ELSE IF Head(x) \in Blancos THEN Strip(Tail(x))
    ELSE IF x[Len(x)] \in Blancos THEN Strip(SubSeq(x, 1, Len(x) - 1))
    ELSE x

\* `not apellidos_nombres or len(apellidos_nombres.strip()) < 3`
EntradaInvalida(x) == x = <<>> \/ Len(Strip(x)) < 3

\* what process_funcion_judicial_once gives its caller: a result with one
\* of the three scenarios, None, or an exception
RetornosOnce == {"no_results", "results_found", "indeterminate", "None",
                 "raise"}

\* `if data:` a result dictionary is never empty, None is falsy
EsResultado(r) == r \in {"no_results", "results_found", "indeterminate"}

\* the validation of the input, then apellidos_nombres.strip()
ValidarEntrada ==
    /\ reintentos.pc = "validar"
    /\ reintentos' =
          IF EntradaInvalida(reintentos.apellidos_nombres)
          THEN [reintentos EXCEPT !.retorno = "error_validacion",
                                  !.pc = "fin"]
          ELSE [reintentos EXCEPT
                  !.apellidos_nombres = Strip(@), !.attempt = 1,
                  !.pc = "for"]
    /\ UNCHANGED resto_reintentos

\* as Intentar, with an 'indeterminate' result retried like None
IntentarSinIndeterminado ==
    /\ reintentos.pc = "for"
    /\ reintentos.attempt <= reintentos.MAX_RETRIES
    /\ \E data \in RetornosOnce :
          reintentos' =
              IF EsResultado(data) /\ data # "indeterminate"
              THEN [reintentos EXCEPT !.intentos = Append(@, data),
                                      !.retorno = data, !.pc = "fin"]
              ELSE [reintentos EXCEPT !.intentos = Append(@, data),
                                      !.pc = "espera"]
    /\ UNCHANGED resto_reintentos

\* one attempt of `for attempt in range(1, MAX_RETRIES + 1)`: the result
\* of process_funcion_judicial_once is returned when it is truthy; None
\* and an exception, which is caught, lead to the next attempt
Intentar ==
    /\ reintentos.pc = "for"
    /\ reintentos.attempt <= reintentos.MAX_RETRIES
    /\ \E data \in RetornosOnce :
          reintentos' =
              IF EsResultado(data)
              THEN [reintentos EXCEPT !.intentos = Append(@, data),
                                      !.retorno = data, !.pc = "fin"]
              ELSE [reintentos EXCEPT !.intentos = Append(@, data),
                                      !.pc = "espera"]
    /\ UNCHANGED resto_reintentos

\* `if attempt < MAX_RETRIES`: the sleep before the next attempt
EsperarReintento ==
    /\ reintentos.pc = "espera"
    /\ reintentos' =
          [reintentos EXCEPT
              !.esperas = IF reintentos.attempt < reintentos.MAX_RETRIES
                          THEN @ + 1 ELSE @,
              !.attempt = @ + 1,
              !.pc = "for"]
    /\ UNCHANGED resto_reintentos

\* the loop is exhausted: the error dictionary is returned
IntentosAgotados ==
    /\ reintentos.pc = "for"
    /\ reintentos.attempt > reintentos.MAX_RETRIES
    /\ reintentos' = [reintentos EXCEPT !.retorno = "error_intentos",
                                        !.pc = "fin"]
    /\ UNCHANGED resto_reintentos

NextReintentos ==
    \/ ValidarEntrada
    \/ Intentar
    \/ EsperarReintento
    \/ IntentosAgotados

\* the texts process_funcion_judicial is given
Entradas == UNION {[1..n -> {" ", "a"}] : n \in 0..MaxLargo}

\* process_funcion_judicial is called, MAX_RETRIES having some value
InitReintentos ==
    /\ InitDaemon(1, 1, {}, {TRUE})
    /\ SoloFlujo("reintentos")
    /\ \E m \in 0..MaxReintentos, x \in Entradas :
          reintentos = [NoReintentos EXCEPT !.pc = "validar",
                                            !.MAX_RETRIES = m,
                                            !.apellidos_nombres = x]

\* a call of process_funcion_judicial
SpecReintentos == InitReintentos /\ [][NextReintentos]_vars

\* ---------------------------- a process created by hand and executed
\* in the background (app/routers/tracking_professional.py,
\* app/services/tracking_professional.py, sincronizacion_service.py).
\* manual.cliente is the estado of the client, manual.proceso tells
\* whether its DeProceso row was committed, manual.lanza names the step
\* of the background task that raised, manual.obtenido what the handler
\* got from get_proceso_by_job_id, manual.bd whether the database took
\* the handler's commit.

\* parameters of actualizar_cliente_estado(cliente_id, estado)
ParametrosActualizar == 2
\* arguments of the call actualizar_cliente_estado(proceso['cliente_id'],
\* 'Error', str(e))
ArgumentosActualizar == 3

\* a call of a function without default values: the arguments are bound
\* to the parameters, or TypeError is raised
Enlazar(parametros, argumentos) ==
    IF argumentos = parametros THEN "ok" ELSE "TypeError"

\* crear_proceso_completo: the proceso and its consultas are added and
\* the client committed as 'Procesando'; a validation or database error
\* is rolled back and raised to the endpoint
CrearProcesoCompleto ==
    /\ manual.pc = "crear"
    /\ \E ok \in BOOLEAN :
          manual' = IF ok
                    THEN [manual EXCEPT !.cliente = "Procesando",
                                        !.proceso = TRUE,
                                        !.pc = "background"]
                    ELSE [manual EXCEPT !.pc = "fin"]
    /\ UNCHANGED resto_manual

\* _ejecutar_proceso_en_background, step 1: the client is read again and
\* one item is built for each page code that has a value; a missing
\* client or a database error raises
ConstruirItems ==
    /\ manual.pc = "background"
    /\ \/ \E k \in 0..manual.paginas :
             manual' = [manual EXCEPT !.items = k, !.pc = "ejecutar"]
       \/ manual' = [manual EXCEPT !.lanza = "construir", !.pc = "except"]
    /\ UNCHANGED resto_manual

\* step 2: run_items(items, headless) returns the results or raises
EjecutarItems ==
    /\ manual.pc = "ejecutar"
    /\ \E ok \in BOOLEAN :
          manual' = IF ok THEN [manual EXCEPT !.pc = "sincronizar"]
                    ELSE [manual EXCEPT !.lanza = "ejecutar",
                                        !.pc = "except"]
    /\ UNCHANGED resto_manual

\* step 3: sincronizar_job_completado commits the client as 'Procesado'
\* and gives True, or rolls back on any error and gives False
SincronizarJob ==
    /\ manual.pc = "sincronizar"
    /\ \E ok \in BOOLEAN :
          manual' = [manual EXCEPT
                       !.cliente = IF ok THEN "Procesado" ELSE @,
                       !.pc = "fin"]
    /\ UNCHANGED resto_manual

\* `except Exception`: the proceso is looked up by job_id and, when it is
\* found, actualizar_cliente_estado is called to set the client to
\* 'Error'; it sets the estado when the call binds and the commit
\* succeeds; every exception of the handler is caught and printed
ManejarErrorBackground ==
    /\ manual.pc = "except"
    /\ \E fila \in {"proceso", "None", "raise"}, ok \in BOOLEAN :
          manual' = [manual EXCEPT
                       !.obtenido = fila,
                       !.bd = ok,
                       !.cliente =
                           IF /\ fila = "proceso"
                              /\ Enlazar(ParametrosActualizar,
                                         ArgumentosActualizar) = "ok"
                              /\ ok
                           THEN "Error" ELSE @,
                       !.pc = "fin"]
    /\ UNCHANGED resto_manual

NextManual ==
    \/ CrearProcesoCompleto
    \/ ConstruirItems
    \/ EjecutarItems
    \/ SincronizarJob
    \/ ManejarErrorBackground

\* POST /procesos/crear for a client in some estado, with some page codes
InitManual ==
    /\ InitDaemon(1, 1, {}, {TRUE})
    /\ SoloFlujo("manual")
    /\ \E e \in {"Pendiente", "Procesando", "Procesado", "Error"},
          n \in 1..MaxCodigos :
          manual = [NoManual EXCEPT !.pc = "crear", !.cliente = e,
                                    !.paginas = n]

\* a process created by hand and its background execution
SpecManual == InitManual /\ [][NextManual]_vars

\* ------------------------------------------------- daemon_state.lock
\* (app/services/daemon_procesador.py).  bloqueo.lock is the holder of
\* the lock or "libre"; bloqueo.pc gives the place of each caller of a
\* control operation and of each daemon thread: "adquirir" before a
\* `with daemon_state.lock`, "dentro" inside it.

\* a slot that holds no live daemon thread
SinHilo(b, h) == b.pc[h] \in {"inactivo", "done"}

\* a control operation is called; iniciar_daemon is called while a
\* thread can still be created
LlamarControl(c) ==
    /\ bloqueo.pc[c] = "inactivo"
    /\ c = "iniciar" => \E h \in HilosDaemon : SinHilo(bloqueo, h)
    /\ bloqueo' = [bloqueo EXCEPT !.pc[c] = "adquirir"]
    /\ UNCHANGED resto_bloqueo

\* `with daemon_state.lock:` is entered when the lock is free
Adquirir(p) ==
    /\ bloqueo.pc[p] \in {"adquirir", "lote_adquirir", "contar_adquirir"}
    /\ bloqueo.lock = "libre"
    /\ bloqueo' =
          [bloqueo EXCEPT
              !.lock = p,
              !.pc[p] = CASE @ = "adquirir" -> "dentro"
                          [] @ = "lote_adquirir" -> "lote_dentro"
                          [] OTHER -> "contar_dentro"]
    /\ UNCHANGED resto_bloqueo

\* iniciar_daemon inside the lock: refused while running; otherwise
\* running is set and the thread started; the lock is released on return
CuerpoIniciar ==
    /\ bloqueo.pc["iniciar"] = "dentro"
    /\ IF bloqueo.running
       THEN bloqueo' = [bloqueo EXCEPT !.lock = "libre",
                                       !.pc["iniciar"] = "inactivo"]
       ELSE \E h \in HilosDaemon :
               /\ SinHilo(bloqueo, h)
               /\ bloqueo' = [bloqueo EXCEPT !.running = TRUE,
                                             !.thread = h,
                                             !.pc[h] = "while",
                                             !.lock = "libre",
                                             !.pc["iniciar"] = "inactivo"]
    /\ UNCHANGED resto_bloqueo

\* as CuerpoDetener, with the join made inside the `with` block
CuerpoDetenerConJoinDentro ==
    /\ bloqueo.pc["detener"] = "dentro"
    /\ bloqueo' =
          IF ~bloqueo.running
          THEN [bloqueo EXCEPT !.lock = "libre",
                               !.pc["detener"] = "inactivo"]
          ELSE [bloqueo EXCEPT !.running = FALSE,
                               !.pc["detener"] = "join"]
    /\ UNCHANGED resto_bloqueo

\* detener_daemon inside the lock: refused while not running; otherwise
\* running is cleared; the lock is released at the end of the block,
\* before the join
CuerpoDetener ==
    /\ bloqueo.pc["detener"] = "dentro"
    /\ bloqueo' =
          IF ~bloqueo.running
          THEN [bloqueo EXCEPT !.lock = "libre",
                               !.pc["detener"] = "inactivo"]
          ELSE [bloqueo EXCEPT !.running = FALSE,
                               !.lock = "libre",
                               !.pc["detener"] = "join"]
    /\ UNCHANGED resto_bloqueo

\* detener_daemon after the block: thread.join(timeout=5) returns when
\* the thread has ended or when the timeout expires, then the call returns
UnirHilo ==
    /\ bloqueo.pc["detener"] = "join"
    /\ bloqueo' = [bloqueo EXCEPT
                      !.lock = IF @ = "detener" THEN "libre" ELSE @,
                      !.pc["detener"] = "inactivo"]
    /\ UNCHANGED resto_bloqueo

\* obtener_estado_daemon: the fields are read inside the lock
CuerpoEstado ==
    /\ bloqueo.pc["estado"] = "dentro"
    /\ bloqueo' = [bloqueo EXCEPT !.lock = "libre",
                                  !.pc["estado"] = "inactivo"]
    /\ UNCHANGED resto_bloqueo

\* _daemon_loop: `while daemon_state.running`, read without the lock
BucleHilo(h) ==
    /\ bloqueo.pc[h] = "while"
    /\ bloqueo' = [bloqueo EXCEPT
                      !.pc[h] = IF bloqueo.running THEN "lote_adquirir"
                                ELSE "done"]
    /\ UNCHANGED resto_bloqueo

\* _procesar_lote_clientes: the counter and the start time are reset
\* inside the lock
ReiniciarContador(h) ==
    /\ bloqueo.pc[h] = "lote_dentro"
    /\ bloqueo' = [bloqueo EXCEPT !.lock = "libre", !.pc[h] = "clientes"]
    /\ UNCHANGED resto_bloqueo

\* _procesar_lote_clientes: a client of the batch was executed and is to
\* be counted, or the batch is over and the thread waits
ClienteDelLote(h) ==
    /\ bloqueo.pc[h] = "clientes"
    /\ \E otro \in BOOLEAN :
          bloqueo' = [bloqueo EXCEPT
                        !.pc[h] = IF otro THEN "contar_adquirir"
                                  ELSE "espera"]
    /\ UNCHANGED resto_bloqueo

\* _procesar_lote_clientes: the counter is incremented inside the lock
SumarContador(h) ==
    /\ bloqueo.pc[h] = "contar_dentro"
    /\ bloqueo' = [bloqueo EXCEPT !.lock = "libre", !.pc[h] = "clientes"]
    /\ UNCHANGED resto_bloqueo

\* _daemon_loop: the wait is over, or running was read false and the
\* loop is left
EsperaLote(h) ==
    /\ bloqueo.pc[h] = "espera"
    /\ bloqueo' = [bloqueo EXCEPT
                      !.pc[h] = IF bloqueo.running THEN "while" ELSE "done"]
    /\ UNCHANGED resto_bloqueo

\* the steps of a caller or thread once it is called or started
Paso(p) ==
    \/ Adquirir(p)
    \/ p = "iniciar" /\ CuerpoIniciar
    \/ p = "detener" /\ (CuerpoDetener \/ UnirHilo)
    \/ p = "estado" /\ CuerpoEstado
    \/ /\ p \in HilosDaemon
       /\ \/ BucleHilo(p)
          \/ ReiniciarContador(p)
          \/ ClienteDelLote(p)
          \/ SumarContador(p)
          \/ EsperaLote(p)

NextBloqueo ==
    \/ \E c \in Controles : LlamarControl(c)
    \/ \E p \in Procesos : Adquirir(p)
    \/ CuerpoIniciar
    \/ CuerpoDetener
    \/ UnirHilo
    \/ CuerpoEstado
    \/ \E h \in HilosDaemon : BucleHilo(h)
    \/ \E h \in HilosDaemon : ReiniciarContador(h)
    \/ \E h \in HilosDaemon : ClienteDelLote(h)
    \/ \E h \in HilosDaemon : SumarContador(h)
    \/ \E h \in HilosDaemon : EsperaLote(h)

\* the daemon was never started and no control operation is under way
InitBloqueo ==
    /\ InitDaemon(1, 1, {}, {TRUE})
    /\ SoloFlujo("bloqueo")
    /\ bloqueo = NoBloqueo

\* the callers and threads around the lock; a caller or thread that can
\* take a step again and again takes it, the lock being handed to each
\* waiting thread in turn
SpecBloqueo ==
    /\ InitBloqueo
    /\ [][NextBloqueo]_vars
    /\ \A p \in Procesos : SF_vars(Paso(p))

\* ------------------------------------------- the detectors on one page
\* deteccion.modal, .loaded and .scraping keep what each detector returned
\* and the checks it tried.

\* has_no_results_modal = detect_no_results_modal(driver)
DetectarModal ==
    /\ deteccion.pc = "modal"
    /\ deteccion' =
          [deteccion EXCEPT
             !.modal = detect_no_results_modal(deteccion.pagina,
                                               deteccion.fallan),
             !.pc = "loaded"]
    /\ UNCHANGED resto_deteccion

\* has_results = detect_results_loaded(driver)
DetectarLoaded ==
    /\ deteccion.pc = "loaded"
    /\ deteccion' =
          [deteccion EXCEPT
             !.loaded = detect_results_loaded(deteccion.pagina,
                                              deteccion.fallan),
             !.pc = "escenario"]
    /\ UNCHANGED resto_deteccion

\* the scenario process_funcion_judicial_once takes from the two answers
ElegirEscenario ==
    /\ deteccion.pc = "escenario"
    /\ deteccion' =
          [deteccion EXCEPT
             !.scenario =
                 EscenarioOnce(
                     [has_no_results_modal |-> deteccion.modal.valor,
                      has_results |-> deteccion.loaded.valor]),
             !.pc = "fin"]
    /\ UNCHANGED resto_deteccion

\* detectar_sin_procesos_judiciales_scraping(driver) on the same page
DetectarScraping ==
    /\ deteccion.pc # "inactiva"
    /\ deteccion.scraping.probados = <<>>
    /\ deteccion' =
          [deteccion EXCEPT
             !.scraping = detectar_sin_procesos_judiciales_scraping(
                              deteccion.pagina, deteccion.fallan)]
    /\ UNCHANGED resto_deteccion

NextDeteccion ==
    \/ DetectarModal
    \/ DetectarLoaded
    \/ ElegirEscenario
    \/ DetectarScraping

Detectores == {"no_results_modal", "results_loaded", "sin_procesos_scraping"}

\* some page, on which some checks raise
InitDeteccion ==
    /\ InitDaemon(1, 1, {}, {TRUE})
    /\ SoloFlujo("deteccion")
    /\ \E p \in Paginas, F \in ConjuntosDeFallos(Detectores) :
          deteccion = [NoDeteccion EXCEPT !.pc = "modal", !.pagina = p,
                                          !.fallan = F]

\* the detectors applied to one page
SpecDeteccion == InitDeteccion /\ [][NextDeteccion]_vars

\* ------------------------------------------------ is_next_button_enabled
\* (flows/funcion_judicial.py).  boton holds what the five checks read of
\* the button: the disabled and aria-disabled attributes ("None" when
\* absent), the names in its class attribute, the answer of the
\* clickability script, the range label as the paginator script parsed it
\* (not legible when the script gives null) and which check raises
\* (0: none).

\* as real_disabled_classes, with the cosmetic class taken for a real one
real_disabled_classes_con_interactive ==
    {"mat-button-disabled", "mdc-button--disabled",
     "mat-mdc-button-disabled-interactive"}

\* the classes that disable the button; none of the three class names the
\* code tests is part of another, so `name in classes` is membership
real_disabled_classes == {"mat-button-disabled", "mdc-button--disabled"}

\* the checks in the order of the code; the first four run under the
\* outer handler (`return True`), the fifth under its own, which falls
\* through to `return True`
is_next_button_enabled(b) ==
    IF b.lanza = 1 THEN TRUE
    ELSE IF b.disabled # "None" THEN FALSE
    ELSE IF b.lanza = 2 THEN TRUE
    ELSE IF b.aria_disabled = "true" THEN FALSE
    ELSE IF b.lanza = 3 THEN TRUE
    ELSE IF b.classes \cap real_disabled_classes # {} THEN FALSE
    ELSE IF b.lanza = 4 THEN TRUE
    ELSE IF ~b.is_clickable THEN FALSE
    ELSE IF b.lanza = 5 THEN TRUE
    ELSE IF b.paginator_info.legible
              /\ ~(b.paginator_info.end < b.paginator_info.total)
         THEN FALSE
    ELSE TRUE

\* one call of is_next_button_enabled
VerificarBoton ==
    /\ boton.pc = "llamada"
    /\ boton' = [boton EXCEPT !.retorno = is_next_button_enabled(boton),
                               !.pc = "return"]
    /\ UNCHANGED resto_boton

\* the class names a next-page button of the site carries or not
ClasesBoton ==
    {"mat-button-disabled", "mdc-button--disabled",
     "mat-mdc-button-disabled-interactive"}

\* what the range label can give
InfosPaginador ==
    {[legible |-> FALSE, end |-> 0, total |-> 0]}
        \cup [legible : {TRUE}, end : 1..MaxTotal, total : 1..MaxTotal]

\* some button, in some state of the paginator
InitBoton ==
    /\ InitDaemon(1, 1, {}, {TRUE})
    /\ SoloFlujo("boton")
    /\ boton \in
          [pc : {"llamada"},
           disabled : {"None", "true"},
           aria_disabled : {"None", "true", "false"},
           classes : SUBSET ClasesBoton,
           is_clickable : BOOLEAN,
           paginator_info : InfosPaginador,
           lanza : 0..5,
           retorno : {TRUE}]

\* is_next_button_enabled applied to one button
SpecBoton == InitBoton /\ [][VerificarBoton]_vars

\* ----------------------------- verificar_httpx_sin_procesos_judiciales
\* (app/services/detectores_consulta.py).  A text is the sequence of its
\* characters.

\* str.lower() on the letters of the model's texts
Mayusculas ==
    <<"A", "B", "C", "D", "E", "F", "G", "H", "I", "J", "K", "L", "M", "N",
      "O", "P", "Q", "R", "S", "T", "U", "V", "W", "X", "Y", "Z", "A'", "E'",
      "I'", "O'", "U'", "N~">>

Minusculas ==
    <<"a", "b", "c", "d", "e", "f", "g", "h", "i", "j", "k", "l", "m", "n",
      "o", "p", "q", "r", "s", "t", "u", "v", "w", "x", "y", "z", "a'", "e'",
      "i'", "o'", "u'", "n~">>

\* c.lower()
LowerChar(c) ==
    IF \E i \in DOMAIN Mayusculas : Mayusculas[i] = c
    THEN Minusculas[CHOOSE i \in DOMAIN Mayusculas : Mayusculas[i] = c]
    ELSE c

\* s.lower()
Lower(s) == [i \in DOMAIN s |-> LowerChar(s[i])]

\* `k in s` of two texts
Contiene(s, k) ==
    \E i \in 0..(Len(s) - Len(k)) : SubSeq(s, i + 1, i + Len(k)) = k

\* the indicators of a query that succeeded without data, letter by
\* letter (an accented letter is written with a following apostrophe or
\* tilde)
sin_resultados_indicators ==
    <<
    <<"p", "a'", "g", "i", "n", "a", " ", "1", " ", "s", "i", "n", " ", "r",
      "e", "s", "u", "l", "t", "a", "d", "o", "s">>,
    <<"s", "i", "n", " ", "p", "r", "o", "c", "e", "s", "o", "s", " ", "j",
      "u", "d", "i", "c", "i", "a", "l", "e", "s">>,
    <<"s", "i", "n", " ", "r", "e", "s", "u", "l", "t", "a", "d", "o", "s",
      ",", " ", "f", "i", "n", "a", "l", "i", "z", "a", "n", "d", "o">>,
    <<"n", "o", " ", "h", "a", "y", " ", "r", "e", "s", "u", "l", "t", "a",
      "d", "o", "s">>,
    <<"b", "u'", "s", "q", "u", "e", "d", "a", " ", "c", "o", "m", "p", "l",
      "e", "t", "a", "d", "a", " ", "s", "i", "n", " ", "r", "e", "s", "u",
      "l", "t", "a", "d", "o", "s">>,
    <<"P", "a'", "g", "i", "n", "a", " ", "1", " ", "s", "i", "n", " ", "r",
      "e", "s", "u", "l", "t", "a", "d", "o", "s", ",", " ", "f", "i", "n",
      "a", "l", "i", "z", "a", "n", "d", "o">>,
    <<"0", " ", "r", "e", "s", "u", "l", "t", "a", "d", "o", "s">>
    >>

\* the indicators of a real error
error_indicators ==
    <<
    <<"n", "o", " ", "s", "e", " ", "o", "b", "t", "u", "v", "i", "e", "r",
      "o", "n", " ", "r", "e", "s", "u", "l", "t", "a", "d", "o", "s", " ",
      "d", "e", " ", "l", "a", " ", "a", "p", "i">>,
    <<"e", "r", "r", "o", "r", " ", "e", "n", " ", "l", "a", " ", "c", "o",
      "n", "s", "u", "l", "t", "a">>,
    <<"c", "o", "n", "e", "x", "i", "o'", "n", " ", "r", "e", "c", "h", "a",
      "z", "a", "d", "a">>,
    <<"t", "i", "m", "e", "o", "u", "t">>,
    <<"e", "r", "r", "o", "r", " ", "5", "0", "0">>,
    <<"e", "r", "r", "o", "r", " ", "4", "0", "0">>,
    <<"e", "x", "c", "e", "p", "t", "i", "o", "n">>,
    <<"t", "r", "a", "c", "e", "b", "a", "c", "k">>,
    <<"f", "a", "l", "l", "o'">>,
    <<"n", "o", " ", "d", "i", "s", "p", "o", "n", "i", "b", "l", "e">>
    >>

\* any(indicator in log_lower for indicator in indicators)
AlgunIndicador(indicators, log_lower) ==
    \E j \in DOMAIN indicators : Contiene(log_lower, indicators[j])

\* as Veredicto, with the no-results branch taken whatever tiene_error is
VeredictoSinPrioridad(tiene_sin_resultados, tiene_error) ==
    IF tiene_sin_resultados THEN <<TRUE, "sin_procesos">>
    ELSE IF tiene_error THEN <<FALSE, "error_api">>
    ELSE <<FALSE, "indeterminado">>

\* the if / elif / else over the two findings
Veredicto(tiene_sin_resultados, tiene_error) ==
    IF tiene_sin_resultados /\ ~tiene_error THEN <<TRUE, "sin_procesos">>
    ELSE IF tiene_error THEN <<FALSE, "error_api">>
    ELSE <<FALSE, "indeterminado">>

verificar_httpx_sin_procesos_judiciales(log_httpx) ==
    IF log_httpx = <<>>
    THEN <<FALSE, "indeterminado">>
    ELSE LET log_lower == Lower(log_httpx)
         IN  Veredicto(AlgunIndicador(sin_resultados_indicators, log_lower),
                       AlgunIndicador(error_indicators, log_lower))

\* pieces of log text, each with what it carries: a no-results indicator,
\* an error indicator or neither
Fragmentos ==
    {[clase |-> "sin", texto |->
    <<"P", "a'", "g", "i", "n", "a", " ", "1", " ", "s", "i", "n", " ", "r",
      "e", "s", "u", "l", "t", "a", "d", "o", "s", ",", " ", "f", "i", "n",
      "a", "l", "i", "z", "a", "n", "d", "o">>],
     [clase |-> "sin", texto |->
    <<"0", " ", "r", "e", "s", "u", "l", "t", "a", "d", "o", "s">>],
     [clase |-> "error", texto |->
    <<"T", "I", "M", "E", "O", "U", "T">>],
     [clase |-> "error", texto |->
    <<"F", "a", "l", "l", "o'">>],
     [clase |-> "error", texto |->
    <<"e", "x", "c", "e", "p", "t", "i", "o", "n">>],
     [clase |-> "neutro", texto |->
    <<"o", "k">>],
     [clase |-> "neutro", texto |->
    <<"E", "r", "r", "o", "r", " ", "c", "o", "n", "s", "u", "l", "t", "a",
      "n", "d", "o", " ", "p", "a'", "g", "i", "n", "a", " ", "1">>]}

\* the lines fs joined into one log, each ended by a line feed
RECURSIVE Unir(_)
Unir(fs) ==
    IF fs = <<>> THEN <<>> ELSE Head(fs).texto \o <<"LF">> \o Unir(Tail(fs))

\* one call of verificar_httpx_sin_procesos_judiciales on the log
VerificarHttpx ==
    /\ verificacion.llamadas < MaxLlamadas
    /\ verificacion' =
          [verificacion EXCEPT
             !.veredicto = verificar_httpx_sin_procesos_judiciales(
                               verificacion.log),
             !.llamadas = @ + 1]
    /\ UNCHANGED resto_verificacion

\* some log, empty or made of a few lines
InitVerificacion ==
    /\ InitDaemon(1, 1, {}, {TRUE})
    /\ SoloFlujo("verificacion")
    /\ \E n \in 0..MaxFragmentos :
          \E fs \in [1..n -> Fragmentos] :
             verificacion =
                [NoVerificacion EXCEPT
                    !.log = Unir(fs),
                    !.clases = [i \in 1..n |-> fs[i].clase]]

\* calls of verificar_httpx_sin_procesos_judiciales on one log
SpecVerificacion == InitVerificacion /\ [][VerificarHttpx]_vars

\* ================================================================== claims
Rango(q) == {q[i] : i \in DOMAIN q}

\* the cycle of cliente[t] has resolved the client's estado
Resuelto(t) == pc[t] \in {"finalizar", "contar"}

\* a thread that is inside the iteration of a client
EnCiclo(t) ==
    pc[t] \in {"marcar", "crear", "crear_fallo", "ejecutar", "scraper",
               "resolver", "finalizar", "contar"}

\* C1: at most one thread is executing _daemon_loop at any time, so no two
\* threads are inside the iteration of a client at once
C1_UnSoloHilo == Cardinality({t \in Hilos : Vivo(t) /\ EnCiclo(t)}) <= 1

\* C2: at most one client has estado 'Procesando'
C2_UnSoloProcesando ==
    Cardinality({c \in Clientes : estado[c] = "Procesando"}) <= 1

\* C3: when the browser strategy returned scenario 'no_results', the cycle
\* does not end with the client reset to 'Pendiente'
C3_NoResultsNoPendiente ==
    \A t \in Hilos :
        (pc[t] = "contar" /\ resultado[t].scenario = "no_results")
            => estado[cliente[t]] # "Pendiente"

\* C4: once the client's estado is resolved, the API fallback has been
\* invoked if the browser strategy gave None, raised or was indeterminate,
\* has not been invoked if it gave results_found or no_results, and was
\* never invoked before the browser strategy
C4_FallbackInvocado ==
    \A t \in Hilos :
        /\ (Resuelto(t) /\ resultado[t].scenario
                \in {"None", "raise", "indeterminate"})
              => "httpx" \in Rango(estrategias[t])
        /\ resultado[t].scenario \in {"results_found", "no_results"}
              => "httpx" \notin Rango(estrategias[t])
        /\ \A i \in DOMAIN estrategias[t] :
              estrategias[t][i] = "httpx"
                  => \E j \in 1..(i - 1) : estrategias[t][j] = "browser"

\* C5: the escenario a completed cycle has recorded in the consulta is one
\* of results_found, no_results, error; never 'indeterminate'
C5_EscenarioFinal ==
    \A t \in Hilos :
        (pc[t] = "contar" /\ consulta[t].escenario # NULL)
            => consulta[t].escenario \in {"results_found", "no_results", "error"}

\* C6: when the iteration of a client has ended (the loop is back at its
\* head), that client is not in 'Procesando'
C6_NoQuedaProcesando ==
    \A t \in Hilos :
        (pc[t] = "for" /\ cliente[t] # 0)
            => estado[cliente[t]] # "Procesando"

\* the daemon has taken client c as the client of an iteration
Seleccionado(c) == \E t \in Hilos : pc[t] = "marcar" /\ cliente[t] = c

\* C7: while the daemon keeps running over a database that never fails, a
\* client in 'Pendiente' does not stay 'Pendiente' forever without being
\* selected by some batch
C7_SinInanicion ==
    \A c \in 1..NumClientesLote :
        (c \in Clientes /\ bd_fiable /\ running /\ estado[c] = "Pendiente")
            ~> (\/ c \notin Clientes
                \/ Seleccionado(c)
                \/ estado[c] # "Pendiente"
                \/ ~running)

\* thread t moves its client to 'Procesando' in this step
MueveAProcesando(t) ==
    /\ pc[t] = "marcar"
    /\ pc'[t] = "crear"
    /\ estado'[cliente[t]] = "Procesando"

LeeLote(t) == pc[t] = "obtener" /\ pc'[t] \in {"for", "espera"}

Pendientes == {c \in Clientes : estado[c] = "Pendiente"}

Minimo(a, b) == IF a < b THEN a ELSE b

C9_SigueTrasExcepcion ==
    /\ [][pc[1] = "except" /\ pc'[1] # "except" => running' = running]_vars
    /\ (pc[1] = "except") ~> (pc[1] = "lote" \/ ~running)

\* C9 witness: an exception has escaped a batch of the running daemon
C9_Testigo ==
    pc[1] = "except" /\ running /\ ultimo_lote_inicio = "datetime"

\* C10: a thread leaves _daemon_loop only in a step that reads running
\* false, and only detener_daemon turns running from true to false
C10_SoloSaleDetenido ==
    [][/\ \A t \in Hilos : (Vivo(t) /\ pc'[t] = "done") => ~running
       /\ (running /\ ~running') => (detener_pc = "idle" /\ detener_pc' = "join")
      ]_vars

\* C10 witness: a thread that started a batch has left _daemon_loop, and
\* the daemon is stopped
C10_Testigo ==
    \E t \in Hilos :
        pc[t] = "done" /\ ~running /\ ultimo_lote_inicio = "datetime"

\* C11: obtener_estado_daemon never reports running = false while a daemon
\* thread is alive and processing a client
C11_EstadoVeraz ==
    ~ObtenerEstadoDaemon.running
        => ~\E t \in Hilos : Vivo(t) /\ EnCiclo(t)

\* C12: once running is false the thread takes no further client of its
\* batch (those not yet started keep estado 'Pendiente'), starts no new
\* batch and sleeps no further interval of the wait; and unless the daemon
\* is started again the thread eventually leaves _daemon_loop
C12_DetencionPronta ==
    /\ [][\A t \in Hilos :
            /\ (pc[t] = "for" /\ pc'[t] = "marcar") => running
            /\ (pc[t] = "for" /\ pc'[t] = "espera" /\ ~running)
                  => \A c \in Rango(lote[t]) : estado'[c] = "Pendiente"
            /\ (pc[t] # "lote" /\ pc'[t] = "lote") => running
            /\ elapsed'[t] > elapsed[t] => running]_vars
    /\ (~running /\ Vivo(1)) ~> (~Vivo(1) \/ running)

\* C12 witness: the daemon was stopped after one client of the batch was
\* processed; the thread has left the loop and the other client of the
\* batch is still 'Pendiente'
C12_Testigo ==
    /\ pc[1] = "done"
    /\ ~running
    /\ clientes_procesados_en_lote = 1
    /\ estado[1] = "Pendiente"

\* C13: while running is true iniciar_daemon answers success = false, no
\* step creates a thread or changes daemon_state.thread, and the only
\* step that changes running is detener_daemon's; while running is false
\* detener_daemon answers success = false, goes on to no join and no step
\* but iniciar_daemon's changes running
C13_LlamadaRechazada ==
    [][/\ running =>
            /\ ~iniciar_daemon(running).success
            /\ iniciar_daemon(running).running = running
            /\ thread' = thread
            /\ \A t \in Hilos : Libre(t) => Libre(t)'
            /\ running' # running => detener_pc' = "join"
       /\ (~running /\ detener_pc = "idle") =>
            /\ ~detener_daemon(running).success
            /\ detener_daemon(running).running = running
            /\ detener_pc' = "idle"
            /\ running' # running => thread' # 0 /\ pc'[thread'] = "while"
      ]_vars

\* C13 witness: the daemon is running with its thread in the cycle of a
\* client, the state in which a second iniciar_daemon is refused
C13_Testigo ==
    /\ running
    /\ ~iniciar_daemon(running).success
    /\ thread # 0
    /\ pc[thread] = "scraper"

\* the scraper outcomes that are no valid result
SinResultadoValido == {"None", "raise", "indeterminate"}

\* C14: the step that resolves a cycle whose scraper call gave None, raised
\* or was indeterminate never leaves the client in 'Error', and leaves it
\* in 'Pendiente' whenever the database takes the update
C14_VuelveAPendiente ==
    [][\A t \in Hilos :
          (/\ pc[t] = "resolver"
           /\ pc'[t] = "finalizar"
           /\ resultado[t].scenario \in SinResultadoValido)
              => /\ estado'[cliente[t]] # "Error"
                 /\ bd_fiable => estado'[cliente[t]] = "Pendiente"]_vars

\* C14 witness: a cycle whose scraper call was indeterminate has been
\* resolved and its client is back in 'Pendiente'
C14_Testigo ==
    \E t \in Hilos :
        /\ pc[t] = "finalizar"
        /\ resultado[t].scenario = "indeterminate"
        /\ bd_fiable
        /\ estado[cliente[t]] = "Pendiente"

\* C15: a client is in 'Error' only if its nombre or apellido is missing
C15_ErrorSoloFatal ==
    \A c \in Clientes : estado[c] = "Error" => c \in sin_nombre

\* C16: the daemon never moves to 'Procesando' a client whose estado is
\* 'Error' or 'Procesado' at that moment
C16_SoloDesdePendiente ==
    [][\A t \in Hilos :
          MueveAProcesando(t)
              => estado[cliente[t]] \notin {"Error", "Procesado"}]_vars

\* C17: when the scraper gave valid results and recording the report in
\* de_reportes_rpa failed, the cycle ends with the client 'Procesado', the
\* proceso 'Completado' and the consulta 'Exitosa'
C17_ReporteFallidoCompleta ==
    \A t \in Hilos :
        (/\ pc[t] = "contar"
         /\ HayResultados(resultado[t])
         /\ reporte[t] = "flush_fallido")
            => /\ estado[cliente[t]] = "Procesado"
               /\ proceso[t].estado = "Completado"
               /\ consulta[t].estado = "Exitosa"

\* C18: capture_all_result_pages clicks through at most max_pages - 1
\* page transitions, holds at most max_pages screenshots, and ends
C18_CapturaTermina ==
    /\ [](/\ captura.clics <= captura.max_pages - 1
          /\ captura.screenshots <= captura.max_pages)
    /\ <>(captura.pc \in {"return", "raise"})

\* C18 witness: with the control always found, enabled and clicked, the
\* call has returned max_pages screenshots after max_pages - 1 transitions
C18_Testigo ==
    /\ captura.pc = "return"
    /\ captura.max_pages = MaxPaginasCaptura
    /\ captura.clics = captura.max_pages - 1
    /\ captura.screenshots = captura.max_pages

\* C19: capture_all_result_pages never raises
C19_CapturaNoLanza == captura.pc # "raise"

RECURSIVE Suma(_)
Suma(q) == IF q = <<>> THEN 0 ELSE Head(q) + Suma(Tail(q))

\* C20: when generar_reporte_httpx has read N > 0 records and the next
\* page call failed, and the document was saved, it returns scenario
\* 'results_found' with total_procesos = N, the rows of the document being
\* numbered 1..N
C20_ParcialConservado ==
    (/\ httpx.pc = "return"
     /\ httpx.fin = "fallo"
     /\ httpx.guardado
     /\ Suma(httpx.paginas) > 0)
        => /\ httpx.retorno.scenario = "results_found"
           /\ httpx.retorno.total_procesos = Suma(httpx.paginas)
           /\ httpx.filas = Numeros(1, Suma(httpx.paginas))

\* C20 witness: two pages were read, the call for the third failed and
\* the records of both pages are returned
C20_Testigo ==
    /\ httpx.pc = "return"
    /\ httpx.fin = "fallo"
    /\ Len(httpx.paginas) = 2
    /\ httpx.retorno.total_procesos = Suma(httpx.paginas)
    /\ httpx.retorno.scenario = "results_found"

\* C21: when the call for page 1 fails, generar_reporte_httpx returns
\* scenario 'error'; 'no_results' is returned only after a page call that
\* succeeded and gave zero records
C21_FalloNoEsSinResultados ==
    httpx.pc = "return"
        => /\ (httpx.fin = "fallo" /\ httpx.paginas = <<>>)
                  => httpx.retorno.scenario = "error"
           /\ httpx.retorno.scenario = "no_results" => httpx.fin = "vacia"

\* C22: generar_reporte_httpx returns a pair whose ruta is None exactly
\* when the scenario is 'error'; 'error' is returned only when building or
\* saving the document failed, and a saved document without records has
\* scenario 'no_results'
C22_RutaSegunEscenario ==
    httpx.pc = "return"
        => /\ httpx.retorno.ruta \in {"None", "ruta_completa"}
           /\ httpx.retorno.ruta = "None"
                  <=> httpx.retorno.scenario = "error"
           /\ httpx.retorno.scenario = "error"
                  => (httpx.fin = "excepcion" \/ ~httpx.guardado)
           /\ (httpx.guardado /\ Suma(httpx.paginas) = 0)
                  => /\ httpx.retorno.scenario = "no_results"
                     /\ httpx.retorno.ruta = "ruta_completa"

\* C22 witness: page 1 was empty and the empty report was saved
C22_Testigo ==
    /\ httpx.pc = "return"
    /\ httpx.fin = "vacia"
    /\ httpx.paginas = <<>>
    /\ httpx.guardado
    /\ httpx.retorno.scenario = "no_results"
    /\ httpx.retorno.ruta = "ruta_completa"

\* the number of entries of q equal to e
Veces(q, e) == Cardinality({i \in DOMAIN q : q[i] = e})

\* C23: when process_funcion_judicial_once ends with a driver created,
\* close_driver was called exactly once, and on the exception path the
\* diagnostic screenshot was tried before it; close_driver is never
\* called twice
C23_DriverCerradoUnaVez ==
    /\ Veces(once.eventos, "close_driver") <= 1
    /\ (once.pc = "fin" /\ once.driver)
          => /\ Veces(once.eventos, "close_driver") = 1
             /\ once.salida \in {"except_none", "raise"}
                   => once.eventos = <<"diagnostico", "close_driver">>

\* C23 witness: the search button was not found, the call returned early
\* and the driver was closed
C23_Testigo ==
    /\ once.pc = "fin"
    /\ once.driver
    /\ once.fallo = "boton"
    /\ once.eventos = <<"close_driver">>

\* C24: when the name input or the search button is not found, or click
\* #1 fails, process_funcion_judicial_once returns a result whose scenario
\* is 'indeterminate'
C24_FalloTransitorioIndeterminado ==
    (once.pc = "fin" /\ once.fallo \in {"campo", "boton", "clic1"})
        => once.retorno = "indeterminate"

\* C25: verificar_httpx_sin_procesos_judiciales gives 'error_api' for a
\* log with an error indicator (also beside a no-results indicator),
\* 'sin_procesos' for a log with a no-results indicator and no error
\* indicator, 'indeterminado' for any other log and for the empty log, and
\* the same value at every call
C25_VeredictoDelLog ==
    /\ [](verificacion.llamadas > 0 =>
            verificacion.veredicto =
              IF "error" \in Rango(verificacion.clases)
              THEN <<FALSE, "error_api">>
              ELSE IF "sin" \in Rango(verificacion.clases)
                   THEN <<TRUE, "sin_procesos">>
                   ELSE <<FALSE, "indeterminado">>)
    /\ [][verificacion.llamadas > 0 =>
            verificacion'.veredicto = verificacion.veredicto]_vars

\* C25 witness: a log with a no-results line and an upper-case error line
\* was verified twice and judged an error
C25_Testigo ==
    /\ verificacion.llamadas = 2
    /\ verificacion.clases = <<"sin", "error">>
    /\ verificacion.veredicto = <<FALSE, "error_api">>

\* C26: detect_no_results_modal and
\* detectar_sin_procesos_judiciales_scraping answer True only for a page
\* that shows the text 'La consulta no devolvió resultados'
C26_SoloElTextoEspecifico ==
    (deteccion.modal.valor \/ deteccion.scraping.valor)
        => deteccion.pagina.snack = "sin_resultados"

\* what detector d answered and tried
Detectado(d) ==
    CASE d = "no_results_modal" -> deteccion.modal
      [] d = "results_loaded" -> deteccion.loaded
      [] OTHER -> deteccion.scraping

\* the checks of detector d that find something on the page and do not
\* raise
Hallazgos(d) ==
    {i \in DOMAIN Chequeos(d) :
        /\ Chequeos(d)[i] \notin deteccion.fallan
        /\ Positivo(Chequeos(d)[i], deteccion.pagina)}

SenalesBoton ==
    <<boton.disabled # "None",
      boton.aria_disabled = "true",
      \/ "mat-button-disabled" \in boton.classes
      \/ "mdc-button--disabled" \in boton.classes,
      ~boton.is_clickable,
      /\ boton.paginator_info.legible
      /\ boton.paginator_info.end >= boton.paginator_info.total>>

\* C30: is_next_button_enabled returns False exactly when one of the five
\* signals holds and it and the checks before it were evaluated without an
\* exception; otherwise (no signal, only the cosmetic class, an unreadable
\* range label, an exception before the first signal) it returns True
C30_BotonHabilitado ==
    boton.pc = "return"
        => (~boton.retorno
              <=> \E i \in 1..5 :
                     /\ SenalesBoton[i]
                     /\ \A j \in 1..(i - 1) : ~SenalesBoton[j]
                     /\ boton.lanza \notin 1..i)

\* C30 witness: a button whose only mark is the cosmetic class, with an
\* unreadable range label, is reported enabled
C30_Testigo ==
    /\ boton.pc = "return"
    /\ boton.classes = {"mat-mdc-button-disabled-interactive"}
    /\ boton.lanza = 0
    /\ \A i \in 1..5 : ~SenalesBoton[i]
    /\ ~boton.paginator_info.legible
    /\ boton.retorno

\* C28: every read and write of the shared daemon state (running, thread,
\* clientes_procesados_en_lote, ultimo_lote_inicio), by the control
\* operations and by the daemon thread, happens while daemon_state.lock is
\* held.
C28_AccesoConCerrojo ==
    acceso.registra /\ acceso.campos # {} => acceso.con_lock

\* C29: no database session is open while the browser interaction
\* (process_funcion_judicial_once) runs: a thread about to run the browser
\* strategy holds no open session.
C29_SinSesionDuranteNavegador ==
    \A t \in Hilos : pc[t] = "scraper" => SesionesAbiertas(t) = 0

\* process_funcion_judicial_once has returned 'results_found' after a
\* pagination that captured every page and ended on page K because the
\* next-page control was found disabled
PaginacionCompleta(K) ==
    /\ once.pc = "fin"
    /\ once.retorno = "results_found"
    /\ captura.pc = "return"
    /\ captura.fin = "deshabilitado"
    /\ captura.current_page = K
    /\ captura.clics = K - 1
    /\ captura.paginas = Numeros(1, K)

\* C31 as stated: with K pages of results, every capture and click
\* succeeding and the next-page control disabled on page K, the result has
\* total_pages = K and a screenshots list of exactly K artifacts, one per
\* page in page order.
C31_KArtefactos ==
    \A K \in 1..MaxPaginasCaptura :
        PaginacionCompleta(K)
            => /\ once.total_pages = K
               /\ once.screenshots = ArtefactosDePaginas(Numeros(1, K))

\* C31 amended: in that case the result has scenario 'results_found',
\* total_pages = K and a screenshots list of K + 1 artifacts: one per page
\* in page order, followed by the final screenshot.
C31_KArtefactosYFinal ==
    \A K \in 1..MaxPaginasCaptura :
        PaginacionCompleta(K)
            => /\ once.scenario = "results_found"
               /\ once.total_pages = K
               /\ Len(once.screenshots) = K + 1
               /\ once.screenshots =
                      Append(ArtefactosDePaginas(Numeros(1, K)),
                             Artefacto("99_FINAL", 0))

\* C31 witness: three pages were captured, the control was disabled on
\* page 3, and the call returned
C31_Testigo == PaginacionCompleta(3) /\ once.salida = "return"

\* the steps of click #2 and click #3
EnClics == once.pc \in {"clics23", "clic3"}

C33_EscenarioSegunDeteccion ==
    /\ (once.pc = "fin" /\ once.salida = "return")
          => /\ once.retorno \in {"no_results", "results_found",
                                  "indeterminate"}
             /\ once.has_no_results_modal => once.retorno = "no_results"
             /\ (~once.has_no_results_modal /\ once.has_results)
                    => once.retorno = "results_found"
             /\ (~once.has_no_results_modal /\ ~once.has_results)
                    => once.retorno = "indeterminate"
    /\ captura # NoCaptura
          => /\ ~once.has_no_results_modal
             /\ once.has_results
             /\ once.scenario \in {NULL, "results_found"}

\* C33 witness: both the no-results signal and result rows were detected
\* and the call returned 'no_results' without paginating
C33_Testigo ==
    /\ once.pc = "fin"
    /\ once.salida = "return"
    /\ once.has_no_results_modal
    /\ once.has_results
    /\ once.retorno = "no_results"
    /\ captura = NoCaptura

\* C34: process_funcion_judicial calls process_funcion_judicial_once at
\* most MAX_RETRIES times and stops at the first attempt that gives a
\* result, 'indeterminate' included; when every attempt gives None or
\* raises it returns an error dictionary; it returns neither None nor an
\* exception; for an input shorter than 3 characters after trimming it
\* returns an error without any attempt.
C34_ReintentosAcotados ==
    LET r == reintentos
        n == Len(r.intentos)
    IN  /\ n <= r.MAX_RETRIES
        /\ \A i \in 1..(n - 1) : r.intentos[i] \in {"None", "raise"}
        /\ r.pc = "fin"
              => /\ r.retorno \in {"no_results", "results_found",
                                    "indeterminate", "error_validacion",
                                    "error_intentos"}
                 /\ Len(Strip(r.apellidos_nombres)) < 3
                       => n = 0 /\ r.retorno = "error_validacion"
                 /\ (n > 0 /\ r.intentos[n] \notin {"None", "raise"})
                       => r.retorno = r.intentos[n]
                 /\ (/\ Len(Strip(r.apellidos_nombres)) >= 3
                     /\ \A i \in 1..n : r.intentos[i] \in {"None", "raise"})
                       => n = r.MAX_RETRIES /\ r.retorno = "error_intentos"

\* C34 witness: the first attempt gave None, the second raised and the
\* third gave an 'indeterminate' result, which was returned
C34_Testigo ==
    /\ reintentos.pc = "fin"
    /\ reintentos.intentos = <<"None", "raise", "indeterminate">>
    /\ reintentos.retorno = "indeterminate"

\* API calls that ended the page loop of generar_reporte_httpx
LlamadasFinales ==
    IF httpx.fin \in {"fallo", "vacia", "excepcion"} THEN 1 ELSE 0

\* C35: generar_reporte_httpx requests the pages in the order 1, 2, ...,
\* makes at most MAX_PAGES calls, every requested page but the last one
\* having given records, and requests nothing after the page that failed
\* or was empty.
C35_PaginasEnOrden ==
    /\ [](/\ httpx.consultadas = Numeros(1, Len(httpx.consultadas))
          /\ Len(httpx.consultadas) <= MaxPaginasApi
          /\ Len(httpx.consultadas) = Len(httpx.paginas) + LlamadasFinales
          /\ \A i \in 1..Len(httpx.paginas) : httpx.paginas[i] > 0)
    /\ [][httpx.fin # NULL => httpx'.consultadas = httpx.consultadas]_vars

\* C35 witness: pages 1 and 2 gave records, page 3 failed and the call
\* returned without a fourth request
C35_Testigo ==
    /\ httpx.pc = "return"
    /\ httpx.fin = "fallo"
    /\ httpx.consultadas = <<1, 2, 3>>

\* thread t is inside _procesar_lote_clientes, past the reset of the
\* counter
EnLote(t) ==
    pc[t] \in {"obtener", "for", "marcar", "crear", "crear_fallo", "ejecutar",
               "scraper", "resolver", "finalizar", "contar"}

\* C36: under any interleaving of start, stop and the daemon threads,
\* clientes_procesados_en_lote is between 0 and 5 and equals the number
\* of clients of the batch in progress for which a process was created
\* and executed.
C36_ContadorDelLote ==
    cuenta.registra
        => /\ clientes_procesados_en_lote \in 0..LIMITE
           /\ \A t \in Hilos :
                 EnLote(t)
                     => clientes_procesados_en_lote = cuenta.ejecutados[t]

\* C37: no interleaving of iniciar_daemon, detener_daemon,
\* obtener_estado_daemon and the daemon threads deadlocks: detener_daemon
\* does not hold daemon_state.lock when it joins the thread, the holder
\* of the lock can always take its next step, a daemon thread waiting for
\* the lock gets it, and every control call returns.
C37_SinInterbloqueo ==
    /\ [](~(bloqueo.lock = "detener" /\ bloqueo.pc["detener"] = "join"))
    /\ [](\A p \in Procesos : bloqueo.lock = p => ENABLED Paso(p))
    /\ \A h \in HilosDaemon :
          (bloqueo.pc[h] \in {"lote_adquirir", "contar_adquirir"})
              ~> (bloqueo.lock = h)
    /\ \A c \in Controles :
          (bloqueo.pc[c] # "inactivo") ~> (bloqueo.pc[c] = "inactivo")

\* C37 witness: detener_daemon is at its join, having released the lock,
\* while a daemon thread holds the lock to update its counter
C37_Testigo ==
    /\ bloqueo.pc["detener"] = "join"
    /\ bloqueo.lock \in HilosDaemon
    /\ bloqueo.pc[bloqueo.lock] = "contar_dentro"

\* C38: when the background execution of a process created by hand
\* raises, the client that crear_proceso_completo set to 'Procesando' is
\* moved to 'Error'; it is not left in 'Procesando' (the proceso being
\* found by its job_id and the database taking the update).
C38_ErrorTrasExcepcion ==
    (/\ manual.pc = "fin"
     /\ manual.lanza # NULL
     /\ manual.obtenido = "proceso"
     /\ manual.bd)
        => manual.cliente = "Error"

====
